---- MODULE Spec2Model ----
(***************************************************************************)
(* Model of the mapdataBot pipeline: the two CSV -> PostgreSQL uploaders   *)
(* (upload_poi_to_pg.py, upload_police_stations_to_poi.py) and the two     *)
(* deduplicators (dedupe_combined_places.py, stats_deduped_no_latlon.py).  *)
(*                                                                         *)
(* Text is a sequence of one-character strings, so that strip, slicing,    *)
(* joining, float() and the identifier pattern are computed character by   *)
(* character.  Python's None / SQL NULL is the value None below; a float   *)
(* is <<"float", sign, magnitude>>, an int <<"int", n>>, a timestamp       *)
(* <<"ts", k>>.                                                            *)
(***************************************************************************)
EXTENDS Integers, Sequences, FiniteSets, TLC

\* ------------------------------------------------------------------ text

None == <<"NULL">>

Float(sign, mag) == <<"float", sign, mag>>

IntVal(n) == <<"int", n>>

Timestamp(k) == <<"ts", k>>

\* Python truthiness of the values the scripts test: None and "" are falsy.
Truthy(x) == x # None /\ x # <<>>

\* Python's `x or y`.
Or(x, y) == IF Truthy(x) THEN x ELSE y

IsSpace(c) == c \in {" ", "\t", "\n", "\r"}

IsDigit(c) == c \in {"0", "1", "2", "3", "4", "5", "6", "7", "8", "9"}

UpperLetters == <<"A", "B", "C", "D", "E", "F", "G", "H", "I", "J", "K", "L", "M",
                  "N", "O", "P", "Q", "R", "S", "T", "U", "V", "W", "X", "Y", "Z">>

LowerLetters == <<"a", "b", "c", "d", "e", "f", "g", "h", "i", "j", "k", "l", "m",
                  "n", "o", "p", "q", "r", "s", "t", "u", "v", "w", "x", "y", "z">>

ToLower == [c \in {UpperLetters[i] : i \in 1..26} |->
               LowerLetters[CHOOSE i \in 1..26 : UpperLetters[i] = c]]

IsUpper(c) == c \in DOMAIN ToLower

IsLower(c) == c \in {LowerLetters[i] : i \in 1..26}

\* [A-Za-z0-9_]
IsWordChar(c) == IsUpper(c) \/ IsLower(c) \/ IsDigit(c) \/ c = "_"

LowerChar(c) == IF IsUpper(c) THEN ToLower[c] ELSE c

\* str.lower()
Lower(s) == [i \in 1..Len(s) |-> LowerChar(s[i])]

\* index of the first non-blank character at or after i (Len(s) + 1 if none)
RECURSIVE FirstNonSpace(_, _)
FirstNonSpace(s, i) == IF i > Len(s) \/ ~IsSpace(s[i]) THEN i ELSE FirstNonSpace(s, i + 1)

\* index of the last non-blank character at or before i (0 if none)
RECURSIVE LastNonSpace(_, _)
LastNonSpace(s, i) == IF i < 1 \/ ~IsSpace(s[i]) THEN i ELSE LastNonSpace(s, i - 1)

\* str.strip()
Strip(s) == SubSeq(s, FirstNonSpace(s, 1), LastNonSpace(s, Len(s)))

\* s[:n]
Prefix(s, n) == SubSeq(s, 1, IF Len(s) < n THEN Len(s) ELSE n)

\* sep.join(parts)
RECURSIVE Join(_, _)
Join(parts, sep) ==
    IF parts = <<>> THEN <<>>
    ELSE IF Len(parts) = 1 THEN parts[1]
    ELSE parts[1] \o sep \o Join(Tail(parts), sep)

\* [p for p in parts if p]
RECURSIVE NonEmpty(_)
NonEmpty(parts) ==
    IF parts = <<>> THEN <<>>
    ELSE IF Truthy(Head(parts)) THEN <<Head(parts)>> \o NonEmpty(Tail(parts))
    ELSE NonEmpty(Tail(parts))

\* re.sub(r"\s+", " ", s): every run of whitespace becomes one blank.
RECURSIVE CollapseFrom(_, _)
CollapseFrom(s, i) ==
    IF i > Len(s) THEN <<>>
    ELSE IF ~IsSpace(s[i]) THEN <<s[i]>> \o CollapseFrom(s, i + 1)
    ELSE IF i > 1 /\ IsSpace(s[i - 1]) THEN CollapseFrom(s, i + 1)
    ELSE <<" ">> \o CollapseFrom(s, i + 1)

CollapseSpaces(s) ==
    IF \A i \in 1..Len(s) : ~IsSpace(s[i]) THEN s ELSE CollapseFrom(s, 1)

\* ----------------------------------------------------------------- float

DigitVal(c) == CHOOSE d \in 0..9 : <<"0", "1", "2", "3", "4", "5", "6", "7", "8", "9">>[d + 1] = c

RECURSIVE DigitsVal(_)
DigitsVal(s) == IF s = <<>> THEN 0 ELSE 10 * DigitsVal(SubSeq(s, 1, Len(s) - 1)) + DigitVal(s[Len(s)])

AllDigits(s) == s # <<>> /\ \A i \in 1..Len(s) : IsDigit(s[i])

\* float(s) on the decimal integer literals: surrounding whitespace is
\* dropped, an optional sign, then one or more digits.  Anything else
\* raises ValueError, which FloatOf reports as the value ValueError.
ValueError == <<"ValueError">>

FloatOf(s) ==
    LET t == Strip(s)
        signed == t # <<>> /\ Head(t) \in {"-", "+"}
        body == IF signed THEN Tail(t) ELSE t
    IN  IF AllDigits(body)
        THEN Float(IF signed /\ Head(t) = "-" THEN -1 ELSE 1, DigitsVal(body))
        ELSE ValueError

RECURSIVE NatDigits(_)
NatDigits(n) ==
    LET d == <<<<"0">>, <<"1">>, <<"2">>, <<"3">>, <<"4">>, <<"5">>, <<"6">>, <<"7">>, <<"8">>, <<"9">>>>[(n % 10) + 1]
    IN  IF n < 10 THEN d ELSE NatDigits(n \div 10) \o d

\* f"{x}" of an integral float: "-1.0", "12.0"
FloatRepr(f) == (IF f[2] = -1 THEN <<"-">> ELSE <<>>) \o NatDigits(f[3]) \o <<".", "0">>

\* ------------------------------------------------------ string constants

S_Point == <<"P", "o", "i", "n", "t">>

S_Active == <<"A", "c", "t", "i", "v", "e">>

S_none == <<"n", "o", "n", "e">>

\* the " + " of " + ".join(...)
S_PlusSep == <<" ", "+", " ">>

\* upload_poi_to_pg.py: name[:50]; upload_police_stations_to_poi.py: name[:50]
NameMax == 50

\* str(use_type_src)[:20]; defaults.use_type[:20]
UseTypeMax == 20

\* mapped[:5]
PreviewMax == 5

\* map_row's `return None` (the skip signal of Optional[Dict])
NoneRow == [none |-> TRUE]

\* ------------------------------------------- upload_poi_to_pg.py: map_row

\* row.get(key) of a csv.DictReader row: a function from header to cell.
Get(row, key) == IF key \in DOMAIN row THEN row[key] ELSE None

\* The try block of map_row: float() of each non-empty cell; a ValueError
\* from either conversion leaves both lat and lon None.
PoiLatLon(row) ==
    LET lat_str == Get(row, "lat")
        lon_str == Get(row, "lon")
        lat == IF lat_str \notin {None, <<>>} THEN FloatOf(lat_str) ELSE None
        lon == IF lon_str \notin {None, <<>>} THEN FloatOf(lon_str) ELSE None
    IN  IF lat = ValueError \/ lon = ValueError
        THEN [lat |-> None, lon |-> None]
        ELSE [lat |-> lat, lon |-> lon]

\* mutant: the name is tested as the file has it, blanks included
PoiNameNoStrip(row) == Or(Get(row, "name"), <<>>)

\* name = (row.get("name") or "").strip()
PoiName(row) == Strip(Or(Get(row, "name"), <<>>))

PoiMapRow(row, defaults, now) ==
    LET name == Prefix(PoiName(row), NameMax)
        raw_address == Strip(Or(Get(row, "address"), <<>>))
        formatted_address == Strip(Or(Get(row, "formatted_address"), <<>>))
        plus_code == Strip(Or(Get(row, "plus_code"), Or(Get(row, "pluscode"), <<>>)))
        area == Strip(Or(Get(row, "area"), <<>>))
        city == Strip(Or(Get(row, "city"), <<>>))
        desc_parts == <<raw_address, plus_code, area, city, formatted_address>>
        description == Or(Join(NonEmpty(desc_parts), S_PlusSep), name)
        ll == PoiLatLon(row)
        fallback_loc == Join(NonEmpty(<<raw_address, plus_code, area, city, formatted_address>>), S_PlusSep)
        location == IF ll.lat # None /\ ll.lon # None
                    THEN <<"[", "[">> \o FloatRepr(ll.lat) \o <<",">> \o FloatRepr(ll.lon) \o <<"]", "]">>
                    ELSE Or(fallback_loc, name)
        use_type_src == Or(Get(row, "location_type"), Or(defaults.use_type, <<>>))
        area2 == Or(area, None)
        city2 == Or(city, None)
        address_composite ==
            Or(Join(NonEmpty(<<raw_address, plus_code, area2, city2, formatted_address>>), S_PlusSep), None)
    IN  IF ~Truthy(PoiName(row)) THEN NoneRow
        ELSE [status2 |-> S_Active,
              status |-> S_Active,
              mark_type |-> S_Point,
              use_type |-> IF Truthy(use_type_src) THEN Prefix(use_type_src, UseTypeMax) ELSE None,
              location |-> location,
              radius |-> defaults.radius_default,
              name |-> name,
              description |-> description,
              created |-> Timestamp(now),
              updated |-> Timestamp(now),
              created_by_id |-> IntVal(1),
              updated_by_id |-> defaults.updated_by_id,
              speed_limit |-> defaults.speed_limit_override,
              alert_type |-> Or(defaults.alert_type_override, S_none),
              lat |-> ll.lat,
              lon |-> ll.lon,
              address |-> address_composite,
              pluscode |-> Or(plus_code, None),
              area |-> area2,
              city |-> city2,
              state |-> Or(Strip(Or(Get(row, "state"), <<>>)), None),
              pincode |-> Or(Strip(Or(Get(row, "pincode"), <<>>)), None),
              phone |-> Or(Strip(Or(Get(row, "phone"), <<>>)), None),
              website |-> Or(Strip(Or(Get(row, "website"), <<>>)), None)]

\* ---------------------------- upload_police_stations_to_poi.py: map_row

H_Name == <<"N", "a", "m", "e">>

H_District == <<"D", "i", "s", "t", "r", "i", "c", "t">>

H_State == <<"S", "t", "a", "t", "e">>

H_Address == <<"A", "d", "d", "r", "e", "s", "s">>

H_Contact == <<"C", "o", "n", "t", "a", "c", "t", " ", "N", "u", "m", "b", "e", "r">>

H_Latitude == <<"L", "o", "c", "a", "t", "i", "o", "n", ":", "l", "a", "t", "i", "t", "u", "d", "e">>

H_Longitude == <<"L", "o", "c", "a", "t", "i", "o", "n", ":", " ", "l", "o", "n", "g", "i", "t", "u", "d", "e">>

\* the candidate headers map_row passes for the latitude
LatitudeCandidates == <<H_Latitude, H_Latitude \o <<" ">>, H_Latitude \o <<" ">>>>

\* the candidate headers map_row passes for the longitude
LongitudeCandidates == <<H_Longitude, H_Longitude \o <<" ">>, H_Longitude>>

\* re.sub(r"\s+", " ", (s or "").strip()).lower()
CanonicalHeader(s) == Lower(CollapseSpaces(Strip(Or(s, <<>>))))

\* _get(row, *candidate_headers): a police row is the sequence of
\* <<header, cell>> pairs in CSV column order.  canonical_map keeps, for each
\* canonical header, the last column that has it; the candidates are tried
\* in order and the cell of the first one found is returned stripped.
\* FirstHit is that column, 0 when no candidate is a header of the row.
RECURSIVE FirstHit(_, _, _)
FirstHit(row, candidate_headers, k) ==
    IF k > Len(candidate_headers) THEN 0
    ELSE LET want == CanonicalHeader(candidate_headers[k])
             hits == {i \in 1..Len(row) : CanonicalHeader(row[i][1]) = want}
         IN  IF hits # {} THEN CHOOSE i \in hits : \A j \in hits : j <= i
             ELSE FirstHit(row, candidate_headers, k + 1)

PoliceGet(row, candidate_headers) ==
    IF row = <<>> THEN <<>>
    ELSE LET key == FirstHit(row, candidate_headers, 1)
         IN  IF key = 0 THEN <<>> ELSE Strip(Or(row[key][2], <<>>))

\* _parse_float
ParseFloat(s) ==
    LET t == Strip(Or(s, <<>>))
    IN  IF ~Truthy(t) THEN None
        ELSE IF FloatOf(t) = ValueError THEN None ELSE FloatOf(t)

\* mutant: no coordinate pattern, the location is always the fallback
BuildLocationNone(lat, lon) == None

\* _build_location
BuildLocation(lat, lon) ==
    IF lat = None \/ lon = None THEN None
    ELSE <<"[", "[">> \o FloatRepr(lat) \o <<",">> \o FloatRepr(lon) \o <<"]", "]">>

PoliceMapRow(row, defaults, now) ==
    LET name0 == PoliceGet(row, <<H_Name>>)
        name == Prefix(name0, NameMax)
        district == PoliceGet(row, <<H_District>>)
        state == PoliceGet(row, <<H_State>>)
        address == PoliceGet(row, <<H_Address>>)
        phone == PoliceGet(row, <<H_Contact>>)
        lat == ParseFloat(PoliceGet(row, LatitudeCandidates))
        lon == ParseFloat(PoliceGet(row, LongitudeCandidates))
        location == Or(BuildLocation(lat, lon), Or(address, name))
    IN  IF ~Truthy(name0) THEN NoneRow
        ELSE [status2 |-> defaults.status2,
              status |-> defaults.status,
              mark_type |-> defaults.mark_type,
              use_type |-> IF Truthy(defaults.use_type) THEN Prefix(defaults.use_type, UseTypeMax) ELSE None,
              location |-> location,
              radius |-> defaults.radius,
              name |-> name,
              description |-> Or(address, name),
              created |-> Timestamp(now),
              updated |-> Timestamp(now),
              created_by_id |-> defaults.created_by_id,
              updated_by_id |-> defaults.updated_by_id,
              speed_limit |-> defaults.speed_limit,
              alert_type |-> defaults.alert_type,
              lat |-> lat,
              lon |-> lon,
              address |-> Or(address, None),
              pluscode |-> <<>>,
              area |-> Or(district, None),
              city |-> Or(district, None),
              state |-> Or(state, None),
              pincode |-> <<>>,
              phone |-> Or(phone, None),
              website |-> <<>>]

\* ------------------------------------------------ table identifier, SQL

\* re.match(r"^[A-Za-z0-9_]+(\.[A-Za-z0-9_]+)?$", table): one or two
\* non-empty runs of word characters separated by one dot; Python's `$`
\* also matches just before one trailing newline.
WordRun(s) == s # <<>> /\ \A i \in 1..Len(s) : IsWordChar(s[i])

MatchesIdentifier(s) ==
    LET body == IF s # <<>> /\ s[Len(s)] = "\n" THEN SubSeq(s, 1, Len(s) - 1) ELSE s
    IN  \/ WordRun(body)
        \/ \E d \in 1..Len(body) :
              /\ body[d] = "."
              /\ WordRun(SubSeq(body, 1, d - 1))
              /\ WordRun(SubSeq(body, d + 1, Len(body)))

\* _validate_table_identifier: the table, or ValueError
ValidateTableIdentifier(table) == IF MatchesIdentifier(table) THEN table ELSE ValueError

\* build_insert_sql leaving by the ValueError of _validate_table_identifier
SqlValueError == [raises |-> "ValueError"]

\* the relation name the UPDATE clause of upload_poi_to_pg.py spells out
S_skytron == <<"s", "k", "y", "t", "r", "o", "n", "_", "a", "p", "i", "_", "p", "o", "i", "n", "t", "o", "f", "i", "n", "t", "e", "r", "e", "s", "t", "s">>

\* mutant: the SET clause assigns EXCLUDED.c without COALESCE
PoiUpdateSetExcluded ==
    [c \in {"updated", "updated_by_id", "mark_type", "use_type", "location", "lat", "lon",
            "address", "pluscode", "area", "city", "state", "pincode", "phone",
            "website"} |-> "excluded"]

\* ON CONFLICT (name) DO UPDATE SET ... of upload_poi_to_pg.py
PoiUpdateSet ==
    [c \in {"updated", "updated_by_id"} |-> "excluded"] @@
    [c \in {"mark_type", "use_type", "location", "lat", "lon", "address", "pluscode",
            "area", "city", "state", "pincode", "phone", "website"} |-> "coalesce"]

\* ON CONFLICT (name) DO UPDATE SET ... of upload_police_stations_to_poi.py
PoliceUpdateSet ==
    [c \in {"updated", "updated_by_id", "status2", "status", "mark_type", "use_type",
            "location", "radius", "description", "alert_type", "speed_limit", "lat",
            "lon", "address", "pluscode", "area", "city", "state", "pincode", "phone",
            "website"} |-> "excluded"]

\* mutant: the DO NOTHING branch is lost
PoiBuildInsertSqlAlwaysUpdate(on_conflict, table) ==
    IF ValidateTableIdentifier(table) = ValueError THEN SqlValueError
    ELSE [table |-> table, action |-> "update", set |-> PoiUpdateSet, ref |-> S_skytron]

\* build_insert_sql of upload_poi_to_pg.py: the statement, or ValueError.
\* `ref` is the relation the COALESCE fallbacks read.
PoiBuildInsertSql(on_conflict, table) ==
    IF ValidateTableIdentifier(table) = ValueError THEN SqlValueError
    ELSE IF on_conflict = "ignore"
         THEN [table |-> table, action |-> "nothing", set |-> <<>>, ref |-> None]
         ELSE [table |-> table, action |-> "update", set |-> PoiUpdateSet, ref |-> S_skytron]

\* build_insert_sql of upload_police_stations_to_poi.py
PoliceBuildInsertSql(on_conflict, table) ==
    IF ValidateTableIdentifier(table) = ValueError THEN SqlValueError
    ELSE IF on_conflict = "ignore"
         THEN [table |-> table, action |-> "nothing", set |-> <<>>, ref |-> None]
         ELSE [table |-> table, action |-> "update", set |-> PoliceUpdateSet, ref |-> None]

\* ------------------------------------------------------------- the sink
\* PostgreSQL as the scripts use it: a database is a function from table
\* identifier to relation, a relation a function from name (the unique
\* key) to stored row.

Relation(db, table) == IF table \in DOMAIN db THEN db[table] ELSE <<>>

\* schema.table -> table
RelName(table) ==
    LET body == IF table # <<>> /\ table[Len(table)] = "\n" THEN SubSeq(table, 1, Len(table) - 1) ELSE table
        dots == {d \in 1..Len(body) : body[d] = "."}
    IN  IF dots = {} THEN body ELSE SubSeq(body, (CHOOSE d \in dots : TRUE) + 1, Len(body))

\* The row stored after DO UPDATE SET: EXCLUDED.c for "excluded",
\* COALESCE(EXCLUDED.c, existing.c) for "coalesce", untouched otherwise.
UpdatedRow(old, new, set) ==
    [c \in DOMAIN old |->
        IF c \notin DOMAIN set THEN old[c]
        ELSE IF set[c] = "coalesce" /\ new[c] = None THEN old[c]
        ELSE new[c]]

\* One multi-row INSERT ... ON CONFLICT: rows are taken in order; a second
\* DO UPDATE of a row the same statement already inserted or updated is a
\* cardinality violation and fails the statement.
RECURSIVE ApplyRows(_, _, _, _)
ApplyRows(rel, touched, rows, sql) ==
    IF rows = <<>> THEN [ok |-> TRUE, rel |-> rel]
    ELSE LET r == Head(rows)
         IN  IF r.name \notin DOMAIN rel
             THEN ApplyRows((r.name :> r) @@ rel, touched \cup {r.name}, Tail(rows), sql)
             ELSE IF sql.action = "nothing"
             THEN ApplyRows(rel, touched, Tail(rows), sql)
             ELSE IF r.name \in touched
             THEN [ok |-> FALSE, rel |-> rel]
             ELSE ApplyRows([rel EXCEPT ![r.name] = UpdatedRow(rel[r.name], r, sql.set)],
                            touched \cup {r.name}, Tail(rows), sql)

\* The statement names a relation in its SET clause that is not its target.
UnknownRelation(sql) == sql.action = "update" /\ sql.ref # None /\ sql.ref # RelName(sql.table)

\* execute_values(cur, sql, values): the database after the statement, or
\* ok = FALSE when the sink rejects it.
ExecuteValues(db, sql, rows) ==
    IF UnknownRelation(sql) THEN [ok |-> FALSE, db |-> db]
    ELSE LET res == ApplyRows(Relation(db, sql.table), {}, rows, sql)
         IN  [ok |-> res.ok,
              db |-> IF res.ok THEN (sql.table :> res.rel) @@ db ELSE db]

\* ------------------------------------------------------ uploader: state

VARIABLES
    script,     \* "poi" (upload_poi_to_pg.py) or "police" (upload_police_stations_to_poi.py)
    args,       \* parse_args() and read_csv_rows() of the current run
    mapped,     \* main: mapped
    skipped,    \* main: skipped
    preview,    \* the rows the dry run printed
    pc,         \* position of main
    conn,       \* calls made on the connection: opens, executes, commits, rollbacks, closes
    cursor,     \* i of `for i in range(0, len(mapped), batch_size)`
    sql,        \* build_insert_sql's statement
    txn,        \* the database as the open transaction sees it
    sink,       \* the committed database
    sink0,      \* the committed database when the current run started (history)
    runs,       \* number of runs started; the UTC clock of datetime.now
    error,      \* the exception main left by, or "none"
    variant,    \* "csv" (dedupe_combined_places.py) or "nolatlon" (stats_deduped_no_latlon.py)
    df,         \* the deduplicator's table: df, or combined
    df0,        \* the table as it was loaded (history)
    deduped,    \* the deduplicated table written out
    prev,       \* the output of the run before, when this run reads it (history)
    dpc,        \* position of the deduplicator's main
    dir,        \* build_central_db.py: find_result_files(WORKSPACE_DIR), or NoDir
    taken,      \* number of files the loop of main has taken
    filepath,   \* the path last given to parse_filename_info
    meta,       \* build_central_db.py: parse_filename_info(filepath)
    dmeta,      \* stats_deduped_no_latlon.py: parse_filename_info(filepath)
    fileEntries, \* main: entries, load_entries(fp) of the file last taken
    normal,     \* normalize_entries' table of each file that had entries (history)
    frameList,  \* main: frames
    combined,   \* the table written to combined_places.csv
    outputs,    \* the output files written
    stdout,     \* what main printed
    cpc         \* position of build_central_db.py's main

upVars == <<script, args, mapped, skipped, preview, pc, conn, cursor, sql, txn, sink, sink0, runs, error>>

ddVars == <<variant, df, df0, deduped, prev, dpc>>

cbVars == <<dir, taken, filepath, meta, dmeta, fileEntries, normal, frameList, combined, outputs, stdout, cpc>>

vars == <<upVars, ddVars, cbVars>>

DefaultTable == <<"p", "u", "b", "l", "i", "c", ".", "s", "k", "y", "t", "r", "o", "n", "_", "a", "p", "i", "_", "p", "o", "i", "n", "t", "o", "f", "i", "n", "t", "e", "r", "e", "s", "t", "s">>

StagingTable == <<"p", "u", "b", "l", "i", "c", ".", "s", "k", "y", "t", "r", "o", "n", "_", "a", "p", "i", "_", "p", "o", "i", "n", "t", "o", "f", "i", "n", "t", "e", "r", "e", "s", "t", "s", "_", "s", "t", "a", "g", "i", "n", "g">>

NoConn == [opens |-> 0, executes |-> 0, commits |-> 0, rollbacks |-> 0, closes |-> 0]

NoSql == [action |-> "unbuilt"]

\* argparse defaults of upload_poi_to_pg.py, as main's `defaults` dict
PoiArgsDefault ==
    [created_by_id |-> IntVal(1), updated_by_id |-> IntVal(1),
     status |-> <<"a", "c", "t", "i", "v", "e">>, status2 |-> <<"a", "c", "t", "i", "v", "e">>, mark_type |-> <<"p", "o", "i">>,
     use_type |-> <<"p", "u", "b", "l", "i", "c">>, radius_default |-> None,
     speed_limit_override |-> None, alert_type_override |-> None]

\* every option given on the command line
PoiArgsOverride ==
    [created_by_id |-> IntVal(7), updated_by_id |-> IntVal(8),
     status |-> <<"s">>, status2 |-> <<"z">>, mark_type |-> <<"m">>,
     use_type |-> <<"u">>, radius_default |-> Float(1, 5),
     speed_limit_override |-> IntVal(60), alert_type_override |-> <<"a">>]

\* Defaults(...) of upload_police_stations_to_poi.py with argparse defaults
PoliceArgsDefault ==
    [created_by_id |-> IntVal(1), updated_by_id |-> IntVal(1), radius |-> IntVal(100),
     status |-> S_Active, status2 |-> S_Active, mark_type |-> S_Point,
     use_type |-> <<"p", "o", "l", "i", "c", "e">>, alert_type |-> S_none, speed_limit |-> IntVal(100)]

\* --created-by-id, --updated-by-id, --radius, --use-type given
PoliceArgsOverride ==
    [created_by_id |-> IntVal(7), updated_by_id |-> IntVal(8), radius |-> IntVal(5),
     status |-> S_Active, status2 |-> S_Active, mark_type |-> S_Point,
     use_type |-> <<"u">>, alert_type |-> S_none, speed_limit |-> IntVal(100)]

NoArgs ==
    [headers |-> <<>>, csv_rows |-> <<>>, batch_size |-> 1000, dry_run |-> FALSE, on_conflict |-> "ignore",
     rollback |-> FALSE, table |-> DefaultTable, defaults |-> PoiArgsDefault]

SeqsUpTo(S, n) == UNION {[1..k -> S] : k \in 0..n}

\* csv.DictReader: the row of a police CSV as <<header, cell>> pairs in
\* column order; a row shorter than the header has None in the missing cells.
DictRow(headers, cells) ==
    [i \in 1..Len(headers) |-> <<headers[i], IF i <= Len(cells) THEN cells[i] ELSE None>>]

\* the i-th row of the police CSV as map_row receives it
PoliceRow(i) == DictRow(args.headers, args.csv_rows[i])

MapRow(row, defaults, now) ==
    IF script = "poi" THEN PoiMapRow(row, defaults, now)
    ELSE PoliceMapRow(DictRow(args.headers, row), defaults, now)

BuildInsertSql(on_conflict, table) ==
    IF script = "poi" THEN PoiBuildInsertSql(on_conflict, table)
    ELSE PoliceBuildInsertSql(on_conflict, table)

\* max(1, args.batch_size)
BatchSize == IF args.batch_size < 1 THEN 1 ELSE args.batch_size

\* mutant: every batch is cut from the start of the list
BatchFromStart == SubSeq(mapped, 1, IF BatchSize < Len(mapped) THEN BatchSize ELSE Len(mapped))

\* mapped[i:i+batch_size]
Batch == SubSeq(mapped, cursor + 1,
                IF cursor + BatchSize < Len(mapped) THEN cursor + BatchSize ELSE Len(mapped))

\* ---------------------------------------------------- uploader: actions

UpInit ==
    /\ script \in {"poi", "police"}
    /\ args = NoArgs
    /\ mapped = <<>>
    /\ skipped = 0
    /\ preview = <<>>
    /\ pc = "idle"
    /\ conn = NoConn
    /\ cursor = 0
    /\ sql = NoSql
    /\ txn = <<>>
    /\ sink = <<>>
    /\ sink0 = <<>>
    /\ runs = 0
    /\ error = "none"

\* main: parse_args() and read_csv_rows().  `inp` holds the sets the
\* command line and the CSV file are drawn from.
ParseArgs(inp) ==
    /\ pc = "idle"
    /\ runs < inp.maxruns
    /\ script \in inp.scripts
    /\ \E hd \in inp.headers[script], rows \in SeqsUpTo(inp.rows[script], inp.maxlen),
          bs \in inp.batch, dry \in inp.dry, rb \in inp.rollback,
          oc \in inp.conflict, t \in inp.tables, d \in inp.defaults[script] :
          args' = [headers |-> hd, csv_rows |-> rows, batch_size |-> bs, dry_run |-> dry,
                   on_conflict |-> oc, rollback |-> rb, table |-> t, defaults |-> d]
    /\ runs' = runs + 1
    /\ pc' = "loaded"
    /\ mapped' = <<>>
    /\ skipped' = 0
    /\ preview' = <<>>
    /\ conn' = NoConn
    /\ cursor' = 0
    /\ sql' = NoSql
    /\ error' = "none"
    /\ txn' = sink
    /\ sink0' = sink
    /\ UNCHANGED <<script, sink, ddVars, cbVars>>

\* main: for row in csv_rows: m = map_row(row, defaults); skip or append
RECURSIVE MapLoop(_, _, _)
MapLoop(rows, acc, skip) ==
    IF rows = <<>> THEN [mapped |-> acc, skipped |-> skip]
    ELSE LET m == MapRow(Head(rows), args.defaults, runs)
         IN  IF m = NoneRow
             THEN MapLoop(Tail(rows), acc, skip + 1)
             ELSE MapLoop(Tail(rows), Append(acc, m), skip)

\* main: the mapping loop
MapRows ==
    /\ pc = "loaded"
    /\ LET out == MapLoop(args.csv_rows, <<>>, 0)
       IN  /\ mapped' = out.mapped
           /\ skipped' = out.skipped
    /\ pc' = "mapped"
    /\ UNCHANGED <<script, args, preview, conn, cursor, sql, txn, sink, sink0, runs, error, ddVars, cbVars>>

\* mutant: the dry run prints its preview and goes on to connect
DryRunFallsThrough ==
    /\ pc = "mapped"
    /\ args.dry_run
    /\ preview' = Prefix(mapped, PreviewMax)
    /\ conn' = [conn EXCEPT !.opens = @ + 1]
    /\ pc' = "connected"
    /\ UNCHANGED <<script, args, mapped, skipped, cursor, sql, txn, sink, sink0, runs, error, ddVars, cbVars>>

\* main: if args.dry_run: print mapped[:5]; return
DryRun ==
    /\ pc = "mapped"
    /\ args.dry_run
    /\ preview' = Prefix(mapped, PreviewMax)
    /\ pc' = "done"
    /\ UNCHANGED <<script, args, mapped, skipped, conn, cursor, sql, txn, sink, sink0, runs, error, ddVars, cbVars>>

\* main: conn = connect_db()
Connect ==
    /\ pc = "mapped"
    /\ ~args.dry_run
    /\ conn' = [conn EXCEPT !.opens = @ + 1]
    /\ txn' = sink
    /\ pc' = "connected"
    /\ UNCHANGED <<script, args, mapped, skipped, preview, cursor, sql, sink, sink0, runs, error, ddVars, cbVars>>

\* connect_db() raises (missing environment, server unreachable): the
\* exception leaves main before the try block.
ConnectFails ==
    /\ pc = "mapped"
    /\ ~args.dry_run
    /\ error' = "connect"
    /\ pc' = "raised"
    /\ UNCHANGED <<script, args, mapped, skipped, preview, conn, cursor, sql, txn, sink, sink0, runs, ddVars, cbVars>>

\* except: conn.rollback(); raise -- finally: conn.close()
Abort(err) ==
    /\ conn' = [conn EXCEPT !.rollbacks = @ + 1, !.closes = @ + 1]
    /\ txn' = sink
    /\ error' = err
    /\ pc' = "raised"

\* main: sql = build_insert_sql(args.on_conflict, args.table), inside try
BuildSql ==
    /\ pc = "connected"
    /\ LET built == BuildInsertSql(args.on_conflict, args.table)
       IN  IF built = SqlValueError
           THEN /\ Abort("ValueError")
                /\ UNCHANGED <<sql, cursor>>
           ELSE /\ sql' = built
                /\ cursor' = 0
                /\ pc' = "batches"
                /\ UNCHANGED <<conn, txn, error>>
    /\ UNCHANGED <<script, args, mapped, skipped, preview, sink, sink0, runs, ddVars, cbVars>>

\* main: one turn of the batch loop, execute_values answering
ExecuteBatch ==
    /\ pc = "batches"
    /\ cursor < Len(mapped)
    /\ LET res == ExecuteValues(txn, sql, Batch)
       IN  IF res.ok
           THEN /\ txn' = res.db
                /\ conn' = [conn EXCEPT !.executes = @ + 1]
                /\ cursor' = cursor + BatchSize
                /\ UNCHANGED <<pc, error>>
           ELSE /\ conn' = [conn EXCEPT !.executes = @ + 1, !.rollbacks = @ + 1, !.closes = @ + 1]
                /\ txn' = sink
                /\ error' = "statement"
                /\ pc' = "raised"
                /\ UNCHANGED cursor
    /\ UNCHANGED <<script, args, mapped, skipped, preview, sql, sink, sink0, runs, ddVars, cbVars>>

\* mutant: the except branch closes without rolling back what was written
ExecuteBatchFailsKeepsWrites ==
    /\ pc = "batches"
    /\ cursor < Len(mapped)
    /\ conn' = [conn EXCEPT !.executes = @ + 1, !.commits = @ + 1, !.closes = @ + 1]
    /\ sink' = txn
    /\ error' = "connection"
    /\ pc' = "raised"
    /\ UNCHANGED <<script, args, mapped, skipped, preview, cursor, sql, txn, sink0, runs, ddVars, cbVars>>

\* main: one turn of the batch loop, the connection failing under execute_values
ExecuteBatchFails ==
    /\ pc = "batches"
    /\ cursor < Len(mapped)
    /\ conn' = [conn EXCEPT !.executes = @ + 1, !.rollbacks = @ + 1, !.closes = @ + 1]
    /\ txn' = sink
    /\ error' = "connection"
    /\ pc' = "raised"
    /\ UNCHANGED <<script, args, mapped, skipped, preview, cursor, sql, sink, sink0, runs, ddVars, cbVars>>

\* mutant: --rollback is not looked at and the transaction commits
RollbackModeCommits ==
    /\ pc = "batches"
    /\ cursor >= Len(mapped)
    /\ args.rollback
    /\ conn' = [conn EXCEPT !.commits = @ + 1, !.closes = @ + 1]
    /\ sink' = txn
    /\ pc' = "done"
    /\ UNCHANGED <<script, args, mapped, skipped, preview, cursor, sql, txn, sink0, runs, error, ddVars, cbVars>>

\* main: if args.rollback: conn.rollback() -- finally: conn.close()
RollbackMode ==
    /\ pc = "batches"
    /\ cursor >= Len(mapped)
    /\ args.rollback
    /\ conn' = [conn EXCEPT !.rollbacks = @ + 1, !.closes = @ + 1]
    /\ txn' = sink
    /\ pc' = "done"
    /\ UNCHANGED <<script, args, mapped, skipped, preview, cursor, sql, sink, sink0, runs, error, ddVars, cbVars>>

\* main: else: conn.commit() -- finally: conn.close()
Commit ==
    /\ pc = "batches"
    /\ cursor >= Len(mapped)
    /\ ~args.rollback
    /\ conn' = [conn EXCEPT !.commits = @ + 1, !.closes = @ + 1]
    /\ sink' = txn
    /\ pc' = "done"
    /\ UNCHANGED <<script, args, mapped, skipped, preview, cursor, sql, txn, sink0, runs, error, ddVars, cbVars>>

\* mutant: no finally block, the failed commit leaves the connection open
CommitFailsLeavesOpen ==
    /\ pc = "batches"
    /\ cursor >= Len(mapped)
    /\ ~args.rollback
    /\ conn' = [conn EXCEPT !.commits = @ + 1, !.rollbacks = @ + 1]
    /\ txn' = sink
    /\ error' = "commit"
    /\ pc' = "raised"
    /\ UNCHANGED <<script, args, mapped, skipped, preview, cursor, sql, sink, sink0, runs, ddVars, cbVars>>

\* conn.commit() raises: except: conn.rollback(); raise -- finally: conn.close()
CommitFails ==
    /\ pc = "batches"
    /\ cursor >= Len(mapped)
    /\ ~args.rollback
    /\ conn' = [conn EXCEPT !.commits = @ + 1, !.rollbacks = @ + 1, !.closes = @ + 1]
    /\ txn' = sink
    /\ error' = "commit"
    /\ pc' = "raised"
    /\ UNCHANGED <<script, args, mapped, skipped, preview, cursor, sql, sink, sink0, runs, ddVars, cbVars>>

\* The process ends (main returned or the exception left it); nothing of
\* the run but the committed database outlives it.
Exit ==
    /\ pc \in {"done", "raised"}
    /\ pc' = "idle"
    /\ args' = NoArgs
    /\ mapped' = <<>>
    /\ skipped' = 0
    /\ preview' = <<>>
    /\ conn' = NoConn
    /\ cursor' = 0
    /\ sql' = NoSql
    /\ txn' = sink
    /\ sink0' = sink
    /\ error' = "none"
    /\ UNCHANGED <<script, sink, runs, ddVars, cbVars>>

\* every step of main after the command line is read
MainSteps ==
    \/ MapRows
    \/ DryRun
    \/ Connect
    \/ ConnectFails
    \/ BuildSql
    \/ ExecuteBatch
    \/ ExecuteBatchFails
    \/ RollbackMode
    \/ Commit
    \/ CommitFails
    \/ Exit

\* ------------------------------------------------------------ DataFrame

\* float('nan'), the missing cell of read_csv, json_normalize and concat
NaN == <<"NaN">>

\* pd.NA
NA == <<"pd.NA">>

\* Series.notna()
NotNa(cell) == cell \notin {NaN, NA}

\* A DataFrame: its columns, its index labels and its rows (column -> cell)
Frame(columns, index, rows) == [columns |-> columns, index |-> index, rows |-> rows]

NoFrame == Frame({}, <<>>, <<>>)

\* RangeIndex(n)
RangeIndex(n) == [i \in 1..n |-> i - 1]

\* df[col] as the sequence of its cells
Column(frame, col) == [i \in 1..Len(frame.rows) |-> frame.rows[i][col]]

\* df[col] = values
SetColumn(frame, col, values) ==
    Frame(frame.columns \cup {col}, frame.index,
          [i \in 1..Len(frame.rows) |->
              [c \in frame.columns \cup {col} |->
                  IF c = col THEN values[i] ELSE frame.rows[i][c]]])

\* the texts read_csv takes for a missing value
NaValues ==
    {<<>>, <<"N", "A">>, <<"n", "a", "n">>, <<"N", "a", "N">>, <<"n", "u", "l", "l">>,
     <<"N", "U", "L", "L">>, <<"N", "/", "A">>, <<"<", "N", "A", ">">>}

\* pd.read_csv(INPUT_CSV, dtype=str): every cell is its text, or NaN
ReadCsv(columns, lines) ==
    Frame(columns, RangeIndex(Len(lines)),
          [i \in 1..Len(lines) |->
              [c \in columns |-> IF lines[i][c] \in NaValues THEN NaN ELSE lines[i][c]]])

\* mutant: to_csv without index=False writes the index as a first column
ToCsvWithIndex(frame) ==
    [columns |-> frame.columns \cup {"Unnamed: 0"},
     lines |-> [i \in 1..Len(frame.rows) |->
                   [c \in frame.columns \cup {"Unnamed: 0"} |->
                       IF c = "Unnamed: 0" THEN NatDigits(frame.index[i])
                       ELSE IF NotNa(frame.rows[i][c]) THEN frame.rows[i][c] ELSE <<>>]]]

\* deduped.to_csv(OUTPUT_CSV, index=False): the header and, for every row,
\* the text of each cell; a missing cell is written empty and the index
\* is not written
ToCsv(frame) ==
    [columns |-> frame.columns,
     lines |-> [i \in 1..Len(frame.rows) |->
                   [c \in frame.columns |->
                       IF NotNa(frame.rows[i][c]) THEN frame.rows[i][c] ELSE <<>>]]]

\* pd.json_normalize(entries): the columns are the keys any entry has;
\* an entry without the key has NaN
JsonNormalize(entries) ==
    LET columns == UNION {DOMAIN entries[i] : i \in 1..Len(entries)}
    IN  Frame(columns, RangeIndex(Len(entries)),
              [i \in 1..Len(entries) |->
                  [c \in columns |-> IF c \in DOMAIN entries[i] THEN entries[i][c] ELSE NaN]])

\* the columns main keeps for the deduplication
KeptColumns == {"name", "formatted_address", "vicinity"}

\* for col in [...]: if col not in df.columns: df[col] = pd.NA
RECURSIVE EnsureColumns(_, _)
EnsureColumns(frame, columns) ==
    IF columns = {} THEN frame
    ELSE LET col == CHOOSE c \in columns : TRUE
             rest == EnsureColumns(frame, columns \ {col})
         IN  IF col \in frame.columns THEN rest
             ELSE SetColumn(rest, col, [i \in 1..Len(frame.rows) |-> NA])

\* pd.concat(frames, ignore_index=True)
RECURSIVE ConcatRows(_, _)
ConcatRows(frames, columns) ==
    IF frames = <<>> THEN <<>>
    ELSE [i \in 1..Len(Head(frames).rows) |->
             [c \in columns |-> IF c \in Head(frames).columns THEN Head(frames).rows[i][c] ELSE NaN]]
         \o ConcatRows(Tail(frames), columns)

Concat(frames) ==
    LET columns == UNION {frames[k].columns : k \in 1..Len(frames)}
        rows == ConcatRows(frames, columns)
    IN  Frame(columns, RangeIndex(Len(rows)), rows)

\* build_address_column(df); lines 22-34 of dedupe_combined_places.py are
\* the same statements
BuildAddressColumn(frame) ==
    LET n == Len(frame.rows)
        formatted == IF "formatted_address" \in frame.columns
                     THEN Column(frame, "formatted_address") ELSE None
        vicinity == IF "vicinity" \in frame.columns THEN Column(frame, "vicinity") ELSE None
        where == [i \in 1..n |-> IF NotNa(formatted[i]) THEN formatted[i] ELSE vicinity[i]]
        FillNa(series) == [i \in 1..n |-> IF NotNa(series[i]) THEN series[i] ELSE <<>>]
    IN  IF formatted # None
        THEN FillNa(IF vicinity # None THEN where ELSE formatted)
        ELSE IF vicinity # None THEN FillNa(vicinity)
        ELSE [i \in 1..n |-> <<>>]

\* Series.astype(str): str() of every cell
AsTypeStr(series) ==
    [i \in 1..Len(series) |->
        IF series[i] = NaN THEN <<"n", "a", "n">>
        ELSE IF series[i] = NA THEN <<"<", "N", "A", ">">>
        ELSE series[i]]

\* the rows of frame taken at these positions, with their index labels
Take(frame, positions) ==
    Frame(frame.columns,
          [k \in 1..Len(positions) |-> frame.index[positions[k]]],
          [k \in 1..Len(positions) |-> frame.rows[positions[k]]])

SameKey(frame, subset, i, j) == \A c \in subset : frame.rows[i][c] = frame.rows[j][c]

\* the positions drop_duplicates keeps, from position i on
RECURSIVE KeptFrom(_, _, _)
KeptFrom(frame, subset, i) ==
    IF i > Len(frame.rows) THEN <<>>
    ELSE IF \E j \in 1..(i - 1) : SameKey(frame, subset, i, j)
    THEN KeptFrom(frame, subset, i + 1)
    ELSE <<i>> \o KeptFrom(frame, subset, i + 1)

\* mutant: keep="last"
RECURSIVE KeptLastFrom(_, _, _)
KeptLastFrom(frame, subset, i) ==
    IF i > Len(frame.rows) THEN <<>>
    ELSE IF \E j \in (i + 1)..Len(frame.rows) : SameKey(frame, subset, i, j)
    THEN KeptLastFrom(frame, subset, i + 1)
    ELSE <<i>> \o KeptLastFrom(frame, subset, i + 1)

\* mutant: the rows that are not the last of their key are dropped
DropDuplicatesKeepLast(frame, subset) == Take(frame, KeptLastFrom(frame, subset, 1))

\* df.drop_duplicates(subset=subset, keep="first")
DropDuplicates(frame, subset) == Take(frame, KeptFrom(frame, subset, 1))

\* -------------------------------------------------- deduplicators: actions

DdInit ==
    /\ variant \in {"csv", "nolatlon"}
    /\ df = NoFrame
    /\ df0 = NoFrame
    /\ deduped = NoFrame
    /\ prev = NoFrame
    /\ dpc = "idle"

\* dedupe_combined_places.py main: df = pd.read_csv(INPUT_CSV, dtype=str).
\* `inp` holds the sets the file is drawn from.
ReadCombinedCsv(inp) ==
    /\ dpc = "idle"
    /\ variant = "csv"
    /\ \E columns \in inp.columns :
          \E lines \in SeqsUpTo({line \in [columns -> UNION {inp.texts[c] : c \in columns}] :
                                     \A c \in columns : line[c] \in inp.texts[c]}, inp.maxlen) :
              /\ df' = ReadCsv(columns, lines)
              /\ df0' = ReadCsv(columns, lines)
    /\ dpc' = "loaded"
    /\ UNCHANGED <<variant, deduped, prev, upVars, cbVars>>

\* dedupe_combined_places.py main: "name" is not a column, nothing is written
NameColumnMissing ==
    /\ dpc = "loaded"
    /\ variant = "csv"
    /\ "name" \notin df.columns
    /\ dpc' = "done"
    /\ UNCHANGED <<variant, df, df0, deduped, prev, upVars, cbVars>>

\* dedupe_combined_places.py main from the address on: df["address"],
\* drop_duplicates, to_csv
DedupeCombinedPlaces ==
    /\ dpc = "loaded"
    /\ variant = "csv"
    /\ "name" \in df.columns
    /\ LET keyed == SetColumn(df, "address", BuildAddressColumn(df))
       IN  /\ df' = keyed
           /\ deduped' = DropDuplicates(keyed, {"name", "address"})
    /\ dpc' = "done"
    /\ UNCHANGED <<variant, df0, prev, upVars, cbVars>>

\* stats_deduped_no_latlon.py main up to pd.concat: every result file with
\* entries becomes a frame that has the kept columns
LoadResultFiles(inp) ==
    /\ dpc = "idle"
    /\ variant = "nolatlon"
    /\ \E files \in inp.files :
          LET frames == [k \in 1..Len(files) |-> EnsureColumns(JsonNormalize(files[k]), KeptColumns)]
          IN  /\ df' = Concat(frames)
              /\ df0' = Concat(frames)
    /\ dpc' = "loaded"
    /\ UNCHANGED <<variant, deduped, prev, upVars, cbVars>>

\* stats_deduped_no_latlon.py main from the address on: combined["address"],
\* the two astype(str), drop_duplicates, to_csv
DedupeNoLatLon ==
    /\ dpc = "loaded"
    /\ variant = "nolatlon"
    /\ LET addressed == SetColumn(df, "address", BuildAddressColumn(df))
           named == SetColumn(addressed, "name", AsTypeStr(Column(addressed, "name")))
           keyed == SetColumn(named, "address", AsTypeStr(Column(named, "address")))
       IN  /\ df' = keyed
           /\ deduped' = DropDuplicates(keyed, {"name", "address"})
    /\ dpc' = "done"
    /\ UNCHANGED <<variant, df0, prev, upVars, cbVars>>

\* dedupe_combined_places.py run on the file its last run wrote:
\* df = pd.read_csv(...) of combined_places_deduped.csv
ReadDedupedCsv ==
    /\ dpc = "done"
    /\ variant = "csv"
    /\ "name" \in df.columns
    /\ prev = NoFrame
    /\ df' = ReadCsv(ToCsv(deduped).columns, ToCsv(deduped).lines)
    /\ df0' = ReadCsv(ToCsv(deduped).columns, ToCsv(deduped).lines)
    /\ prev' = deduped
    /\ dpc' = "loaded"
    /\ UNCHANGED <<variant, deduped, upVars, cbVars>>

\* the deduplication of stats_deduped_no_latlon.py applied to the table
\* it produced: `deduped` in the place of `combined`
TakeDedupedAgain ==
    /\ dpc = "done"
    /\ variant = "nolatlon"
    /\ prev = NoFrame
    /\ df' = deduped
    /\ df0' = deduped
    /\ prev' = deduped
    /\ dpc' = "loaded"
    /\ UNCHANGED <<variant, deduped, upVars, cbVars>>

\* the deduplicator has ended; it can be run again
DedupExit ==
    /\ dpc = "done"
    /\ dpc' = "idle"
    /\ df' = NoFrame
    /\ df0' = NoFrame
    /\ deduped' = NoFrame
    /\ prev' = NoFrame
    /\ UNCHANGED <<variant, upVars, cbVars>>

\* ------------------------------------------------------- uploader: runs

\* an uploader before its first run; no deduplicator runs beside it
\* --------------------------------------------------- build_central_db.py

NoDir == <<"unread">>

NoMeta == [location_type |-> <<>>, area |-> <<>>, city |-> <<>>]

\* before build_central_db.py runs
CbInit ==
    /\ dir = NoDir
    /\ taken = 0
    /\ filepath = <<>>
    /\ meta = NoMeta
    /\ dmeta = NoMeta
    /\ fileEntries = <<>>
    /\ normal = <<>>
    /\ frameList = <<>>
    /\ combined = NoFrame
    /\ outputs = {}
    /\ stdout = <<>>
    /\ cpc = "idle"

\* ---- JSON values: Invalid is a content json.load does not parse,
\* <<"list", items>> a list, <<"dict", fields>> a mapping (key -> value),
\* <<"scalar">> any other value; the values of a record are cells or
\* mappings

Invalid == <<"invalid">>

List(items) == <<"list", items>>

Dict(fields) == <<"dict", fields>>

Scalar == <<"scalar">>

\* isinstance(v, list)
IsList(v) == v # <<>> /\ v[1] = "list"

\* isinstance(v, dict)
IsDict(v) == v # <<>> /\ v[1] = "dict"

\* float("inf") and float("-inf")
Inf(sign) == <<"inf", sign>>

\* for key in ("results", "data", "items", "places")
WrapperKeys == <<"results", "data", "items", "places">>

\* json.load(f) raises on this content
LoadRaises(data) == data = Invalid

\* mutant: an empty list under a wrapper key is passed over
LoadEntriesNonEmpty(data) ==
    IF IsList(data) THEN data[2]
    ELSE IF IsDict(data)
    THEN LET hits == {k \in 1..Len(WrapperKeys) :
                         /\ WrapperKeys[k] \in DOMAIN data[2]
                         /\ IsList(data[2][WrapperKeys[k]])
                         /\ data[2][WrapperKeys[k]][2] # <<>>}
         IN  IF hits # {}
             THEN data[2][WrapperKeys[CHOOSE k \in hits : \A l \in hits : k <= l]][2]
             ELSE <<data>>
    ELSE <<>>

\* load_entries (the same function in build_central_db.py and in
\* stats_deduped_no_latlon.py) on a content json.load parses
LoadEntries(data) ==
    IF IsList(data) THEN data[2]
    ELSE IF IsDict(data)
    THEN LET hits == {k \in 1..Len(WrapperKeys) :
                         /\ WrapperKeys[k] \in DOMAIN data[2]
                         /\ IsList(data[2][WrapperKeys[k]])}
         IN  IF hits # {}
             THEN data[2][WrapperKeys[CHOOSE k \in hits : \A l \in hits : k <= l]][2]
             ELSE <<data>>
    ELSE <<>>

\* the record with its nested mappings flattened to dotted paths
RECURSIVE Flatten(_)
Flatten(fields) ==
    LET pairs == UNION {IF IsDict(fields[k])
                        THEN {<<k \o "." \o j, Flatten(fields[k][2])[j]>> :
                                 j \in DOMAIN Flatten(fields[k][2])}
                        ELSE {<<k, fields[k]>>} : k \in DOMAIN fields}
    IN  [c \in {p[1] : p \in pairs} |-> (CHOOSE p \in pairs : p[1] = c)[2]]

\* pd.json_normalize(entries, sep=".")
JsonNormalizeSep(entries) == JsonNormalize([i \in 1..Len(entries) |-> Flatten(entries[i][2])])

LAT_CANDIDATES ==
    <<"lat", "geometry.location.lat", "geometry.lat", "location.lat", "coordinates.lat",
      "latitude">>

LON_CANDIDATES ==
    <<"lon", "lng", "geometry.location.lng", "geometry.lng", "location.lng",
      "coordinates.lng", "longitude">>

\* pd.to_numeric(series, errors="coerce") of one cell: a number is itself,
\* a text of a decimal integer literal its value, anything else NaN
ToNumeric(cell) ==
    IF cell \in {<<>>, None, NaN, NA} THEN NaN
    ELSE IF cell[1] \in {"float", "inf"} THEN cell
    ELSE IF cell[1] = "int" THEN Float(IF cell[2] < 0 THEN -1 ELSE 1, IF cell[2] < 0 THEN -cell[2] ELSE cell[2])
    ELSE IF FloatOf(cell) = ValueError THEN NaN
    ELSE FloatOf(cell)

\* [c for c in candidates if c in df.columns]
Present(candidates, columns) == SelectSeq(candidates, LAMBDA c : c \in columns)

\* df[sources].apply(to_numeric).bfill(axis=1).iloc[:, 0] of one row: the
\* first value across the sources that is not NaN, or NaN
RECURSIVE BackFilledFirst(_, _)
BackFilledFirst(row, sources) ==
    IF sources = <<>> THEN NaN
    ELSE IF ToNumeric(row[Head(sources)]) # NaN THEN ToNumeric(row[Head(sources)])
    ELSE BackFilledFirst(row, Tail(sources))

\* mutant: the last numeric candidate wins
ExtractLatLonColumnsLast(frame) ==
    LET Reverse(s) == [i \in 1..Len(s) |-> s[Len(s) + 1 - i]]
        lat_sources == Reverse(Present(LAT_CANDIDATES, frame.columns))
        lon_sources == Reverse(Present(LON_CANDIDATES, frame.columns))
        lat == [i \in 1..Len(frame.rows) |-> BackFilledFirst(frame.rows[i], lat_sources)]
        lon == [i \in 1..Len(frame.rows) |-> BackFilledFirst(frame.rows[i], lon_sources)]
    IN  SetColumn(SetColumn(frame, "lat", lat), "lon", lon)

\* extract_lat_lon_columns
ExtractLatLonColumns(frame) ==
    LET lat_sources == Present(LAT_CANDIDATES, frame.columns)
        lon_sources == Present(LON_CANDIDATES, frame.columns)
        lat == [i \in 1..Len(frame.rows) |-> BackFilledFirst(frame.rows[i], lat_sources)]
        lon == [i \in 1..Len(frame.rows) |-> BackFilledFirst(frame.rows[i], lon_sources)]
    IN  SetColumn(SetColumn(frame, "lat", lat), "lon", lon)

\* normalize_entries
NormalizeEntries(entries) == ExtractLatLonColumns(JsonNormalizeSep(entries))

\* Series.between(lo, hi, inclusive="both") of one cell
Between(x, lo, hi) == x[1] = "float" /\ lo <= x[2] * x[3] /\ x[2] * x[3] <= hi

\* np.isfinite of one cell
IsFinite(x) == x[1] = "float"

\* mutant: no row is filtered out
FilterValidLatLonAll(frame) == frame

\* filter_valid_lat_lon
FilterValidLatLon(frame) ==
    LET Valid(i) ==
            /\ Between(frame.rows[i]["lat"], -90, 90)
            /\ Between(frame.rows[i]["lon"], -180, 180)
            /\ IsFinite(frame.rows[i]["lat"]) /\ IsFinite(frame.rows[i]["lon"])
    IN  Take(frame, SelectSeq([i \in 1..Len(frame.rows) |-> i], Valid))

S_results_ == <<"r", "e", "s", "u", "l", "t", "s", "_">>

S_json == <<".", "j", "s", "o", "n">>

S_unknown == <<"u", "n", "k", "n", "o", "w", "n">>

\* os.path.basename: what follows the last "/"
RECURSIVE BaseName(_)
BaseName(path) ==
    IF \E i \in 1..Len(path) : path[i] = "/" THEN BaseName(Tail(path)) ELSE path

\* str.startswith
StartsWith(s, prefix) == Len(s) >= Len(prefix) /\ SubSeq(s, 1, Len(prefix)) = prefix

\* str.endswith
EndsWith(s, suffix) ==
    Len(s) >= Len(suffix) /\ SubSeq(s, Len(s) - Len(suffix) + 1, Len(s)) = suffix

\* s.split(sep) for a one-character sep: the texts between the separators,
\* one more than there are separators
RECURSIVE Split(_, _)
Split(s, sep) ==
    IF \A i \in 1..Len(s) : s[i] # sep THEN <<s>>
    ELSE LET at == CHOOSE i \in 1..Len(s) : s[i] = sep /\ \A j \in 1..(i - 1) : s[j] # sep
         IN  <<SubSeq(s, 1, at - 1)>> \o Split(SubSeq(s, at + 1, Len(s)), sep)

\* mutant: the city is the first token
ParseFilenameInfoCityFirst(filepath_) ==
    LET name == BaseName(filepath_)
        parts == Split(SubSeq(name, Len(S_results_) + 1, Len(name) - Len(S_json)), "_")
    IN  IF ~StartsWith(name, S_results_) \/ ~EndsWith(name, S_json)
        THEN [location_type |-> S_unknown, area |-> S_unknown, city |-> S_unknown]
        ELSE IF Len(parts) < 2
        THEN [location_type |-> S_unknown, area |-> S_unknown, city |-> parts[Len(parts)]]
        ELSE [location_type |-> parts[1],
              area |-> IF Len(parts) > 2 THEN Join(SubSeq(parts, 2, Len(parts) - 1), <<"_">>) ELSE <<>>,
              city |-> parts[1]]

\* build_central_db.py parse_filename_info
ParseFilenameInfo(filepath_) ==
    LET name == BaseName(filepath_)
        \* core = name[len("results_"):-len(".json")]
        parts == Split(SubSeq(name, Len(S_results_) + 1, Len(name) - Len(S_json)), "_")
    IN  IF ~StartsWith(name, S_results_) \/ ~EndsWith(name, S_json)
        THEN [location_type |-> S_unknown, area |-> S_unknown, city |-> S_unknown]
        ELSE IF Len(parts) < 2
        THEN [location_type |-> S_unknown, area |-> S_unknown, city |-> parts[Len(parts)]]
        ELSE [location_type |-> parts[1],
              area |-> IF Len(parts) > 2 THEN Join(SubSeq(parts, 2, Len(parts) - 1), <<"_">>) ELSE <<>>,
              city |-> parts[Len(parts)]]

\* stats_deduped_no_latlon.py parse_filename_info: the area of a name it
\* does not parse is empty
ParseFilenameInfoNoLatLon(filepath_) ==
    LET name == BaseName(filepath_)
        parts == Split(SubSeq(name, Len(S_results_) + 1, Len(name) - Len(S_json)), "_")
    IN  IF ~StartsWith(name, S_results_) \/ ~EndsWith(name, S_json)
        THEN [location_type |-> S_unknown, area |-> <<>>, city |-> S_unknown]
        ELSE IF Len(parts) < 2
        THEN [location_type |-> S_unknown, area |-> <<>>, city |-> parts[Len(parts)]]
        ELSE [location_type |-> parts[1],
              area |-> IF Len(parts) > 2 THEN Join(SubSeq(parts, 2, Len(parts) - 1), <<"_">>) ELSE <<>>,
              city |-> parts[Len(parts)]]

\* parse_filename_info of either script called, outside a run, with a path
\* of inp.paths
ParseFilenameInfoCalled(inp) ==
    /\ cpc = "idle"
    /\ filepath = <<>>
    /\ \E path \in inp.paths :
          /\ filepath' = path
          /\ meta' = ParseFilenameInfo(path)
          /\ dmeta' = ParseFilenameInfoNoLatLon(path)
    /\ UNCHANGED <<dir, taken, fileEntries, normal, frameList, combined, outputs, stdout, cpc, upVars, ddVars>>

\* str.replace(old, new) for one-character texts
Replace(s, old, new) == [i \in 1..Len(s) |-> IF s[i] = old THEN new ELSE s[i]]

\* the columns main of build_central_db.py makes sure are there
HelpfulColumns ==
    {"name", "formatted_address", "vicinity", "place_id", "rating", "user_ratings_total", "types"}

\* df[col] = value for one value in every row
SetAll(frame, col, value) == SetColumn(frame, col, [i \in 1..Len(frame.rows) |-> value])

\* main of build_central_db.py, the body of the loop from the filter on:
\* the valid rows with the file's metadata and the helpful columns
ValidFrame(file, info) ==
    LET valid == FilterValidLatLon(NormalizeEntries(LoadEntries(file.data)))
        typed == SetAll(valid, "location_type", Lower(info.location_type))
        placed == SetAll(typed, "area",
                         IF Truthy(info.area) THEN Replace(info.area, "_", " ") ELSE <<>>)
        cited == SetAll(placed, "city", Lower(info.city))
        sourced == SetAll(cited, "source_file", BaseName(file.name))
    IN  EnsureColumns(sourced, HelpfulColumns)

S_NoFiles == "No results_*.json files found."

S_NoValid == "No valid entries with lat/lon found across files."

S_CombinedRows == "Combined rows (valid lat/lon): "

OUTPUT_COMBINED_CSV == "combined_places.csv"

OUTPUT_COUNTS_CSV == "counts_by_city_and_type.csv"

OUTPUT_COUNTS_TXT == "counts_summary.txt"

\* the characters of result-file paths in code-point order, the order in
\* which Python compares the characters of two str
CodePoints ==
    <<" ", ".", "/", "0", "1", "2", "3", "4", "5", "6", "7", "8", "9">>
    \o UpperLetters \o <<"_">> \o LowerLetters

Ord(c) == CHOOSE i \in 1..Len(CodePoints) : CodePoints[i] = c

\* a < b for two str: the first position where they differ decides, and a
\* proper prefix is the smaller
RECURSIVE StrLess(_, _)
StrLess(a, b) ==
    IF b = <<>> THEN FALSE
    ELSE IF a = <<>> THEN TRUE
    ELSE IF a[1] = b[1] THEN StrLess(Tail(a), Tail(b))
    ELSE Ord(a[1]) < Ord(b[1])

RECURSIVE Sorted(_)

\* mutant: the files are left in the order glob.glob gave them
SortedAsGlobbed(files) == files

\* sorted(glob.glob(pattern)): the files of the directory ordered by path,
\* each put after the files of smaller path among those that follow it
Sorted(files) ==
    IF files = <<>> THEN <<>>
    ELSE LET rest == Sorted(Tail(files))
             smaller == SelectSeq(rest, LAMBDA g : StrLess(g.name, Head(files).name))
             others == SelectSeq(rest, LAMBDA g : ~StrLess(g.name, Head(files).name))
         IN  smaller \o <<Head(files)>> \o others

\* main: find_result_files finds no file
NoResultFiles(inp) ==
    /\ cpc = "idle"
    /\ <<>> \in inp.dirs
    /\ dir' = <<>>
    /\ stdout' = <<S_NoFiles>>
    /\ cpc' = "done"
    /\ UNCHANGED <<taken, filepath, meta, dmeta, fileEntries, normal, frameList, combined, outputs, upVars, ddVars>>

\* main: find_result_files finds the files of one of inp.dirs, sorted
FindResultFiles(inp) ==
    /\ cpc = "idle"
    /\ \E files \in inp.dirs : files # <<>> /\ dir' = Sorted(files)
    /\ cpc' = "loop"
    /\ UNCHANGED <<taken, filepath, meta, dmeta, fileEntries, normal, frameList, combined, outputs, stdout, upVars, ddVars>>

\* the loop of main at a file json.load does not parse: load_entries
\* raises and no statement of main catches it
LoadEntriesRaises ==
    /\ cpc = "loop"
    /\ taken < Len(dir)
    /\ LoadRaises(dir[taken + 1].data)
    /\ filepath' = dir[taken + 1].name
    /\ meta' = ParseFilenameInfo(dir[taken + 1].name)
    /\ cpc' = "failed"
    /\ UNCHANGED <<dir, taken, dmeta, fileEntries, normal, frameList, combined, outputs, stdout, upVars, ddVars>>

\* the loop of main at a file with no entries: continue
SkipFile ==
    /\ cpc = "loop"
    /\ taken < Len(dir)
    /\ ~LoadRaises(dir[taken + 1].data)
    /\ LoadEntries(dir[taken + 1].data) = <<>>
    /\ fileEntries' = LoadEntries(dir[taken + 1].data)
    /\ filepath' = dir[taken + 1].name
    /\ meta' = ParseFilenameInfo(dir[taken + 1].name)
    /\ taken' = taken + 1
    /\ UNCHANGED <<dir, dmeta, normal, frameList, combined, outputs, stdout, cpc, upVars, ddVars>>

\* the loop of main at a file with entries: normalize, filter, metadata,
\* helpful columns, frames.append(df)
ProcessFile ==
    /\ cpc = "loop"
    /\ taken < Len(dir)
    /\ ~LoadRaises(dir[taken + 1].data)
    /\ LoadEntries(dir[taken + 1].data) # <<>>
    /\ fileEntries' = LoadEntries(dir[taken + 1].data)
    /\ filepath' = dir[taken + 1].name
    /\ meta' = ParseFilenameInfo(dir[taken + 1].name)
    /\ normal' = Append(normal, NormalizeEntries(LoadEntries(dir[taken + 1].data)))
    /\ frameList' = Append(frameList, ValidFrame(dir[taken + 1], ParseFilenameInfo(dir[taken + 1].name)))
    /\ taken' = taken + 1
    /\ UNCHANGED <<dir, dmeta, combined, outputs, stdout, cpc, upVars, ddVars>>

\* main after the loop with no frame: nothing is written
NoFrames ==
    /\ cpc = "loop"
    /\ taken = Len(dir)
    /\ frameList = <<>>
    /\ stdout' = <<S_NoValid>>
    /\ cpc' = "done"
    /\ UNCHANGED <<dir, taken, filepath, meta, dmeta, fileEntries, normal, frameList, combined, outputs, upVars, ddVars>>

\* main after the loop with a frame or more: pd.concat, the combined table,
\* the counts and the summary are written, the totals printed
WriteOutputs ==
    /\ cpc = "loop"
    /\ taken = Len(dir)
    /\ frameList # <<>>
    /\ combined' = Concat(frameList)
    /\ outputs' = {OUTPUT_COMBINED_CSV, OUTPUT_COUNTS_CSV, OUTPUT_COUNTS_TXT}
    /\ stdout' = <<S_CombinedRows>>
    /\ cpc' = "done"
    /\ UNCHANGED <<dir, taken, filepath, meta, dmeta, fileEntries, normal, frameList, upVars, ddVars>>

\* stats_deduped_no_latlon.py main up to pd.concat over the files
\* build_central_db.py found: a file json.load does not parse ends the run
LoadFoundFilesRaises ==
    /\ dpc = "idle"
    /\ variant = "nolatlon"
    /\ cpc \in {"done", "failed"}
    /\ \E k \in 1..Len(dir) : LoadRaises(dir[k].data)
    /\ dpc' = "failed"
    /\ UNCHANGED <<variant, df, df0, deduped, prev, upVars, cbVars>>

\* mutant: the no-lat/lon variant keeps the rows with valid coordinates only
EntriesFrameValidOnly(file, info) ==
    LET kept == EnsureColumns(FilterValidLatLon(NormalizeEntries(LoadEntries(file.data))), KeptColumns)
        cited == SetAll(kept, "city", Lower(info.city))
        typed == SetAll(cited, "location_type", Lower(info.location_type))
    IN  SetAll(typed, "source_file", BaseName(file.name))

\* the frame main of stats_deduped_no_latlon.py makes of a file with entries
EntriesFrame(file, info) ==
    LET kept == EnsureColumns(JsonNormalizeSep(LoadEntries(file.data)), KeptColumns)
        cited == SetAll(kept, "city", Lower(info.city))
        typed == SetAll(cited, "location_type", Lower(info.location_type))
    IN  SetAll(typed, "source_file", BaseName(file.name))

\* stats_deduped_no_latlon.py main up to pd.concat over the files
\* build_central_db.py found; with no frame it prints that and returns
LoadFoundFiles ==
    /\ dpc = "idle"
    /\ variant = "nolatlon"
    /\ cpc \in {"done", "failed"}
    /\ dir # <<>>
    /\ \A k \in 1..Len(dir) : ~LoadRaises(dir[k].data)
    /\ LET with == SelectSeq(dir, LAMBDA file : LoadEntries(file.data) # <<>>)
           found == [k \in 1..Len(with) |->
                        EntriesFrame(with[k], ParseFilenameInfoNoLatLon(with[k].name))]
       IN  IF found = <<>>
           THEN dpc' = "done" /\ UNCHANGED <<df, df0>>
           ELSE /\ df' = Concat(found)
                /\ df0' = Concat(found)
                /\ dpc' = "loaded"
    /\ UNCHANGED <<variant, deduped, prev, upVars, cbVars>>

UploaderInit == UpInit /\ DdInit /\ variant = "csv" /\ CbInit

MaxRows == 2

MaxRuns == 2

\* CSV rows of combined_places_deduped.csv (csv.DictReader: header -> cell)
PoiFull ==
    [name |-> <<"A">>, address |-> <<"d">>, formatted_address |-> <<"f">>,
     plus_code |-> <<"p">>, area |-> <<"a">>, city |-> <<"c">>, lat |-> <<"1">>,
     lon |-> <<"2">>, location_type |-> <<"t">>, state |-> <<"s">>,
     pincode |-> <<"5">>, phone |-> <<"7">>, website |-> <<"w">>]

PoiBare ==
    [name |-> <<"A", " ">>, address |-> <<>>, formatted_address |-> <<>>,
     plus_code |-> <<>>, area |-> <<" ">>, city |-> <<>>, lat |-> <<>>,
     lon |-> <<>>, state |-> <<>>, pincode |-> <<>>, phone |-> <<>>, website |-> None]

PoiOther ==
    [name |-> <<"B">>, address |-> <<"e">>, lat |-> <<"x">>, lon |-> <<"2">>,
     phone |-> <<"8">>]

PoiBlank == [name |-> <<" ">>, phone |-> <<"9">>]

\* header of the police stations template
PoliceHeaders == <<H_Name, H_District, H_State, H_Address, H_Contact, H_Latitude, H_Longitude>>

\* the same columns as a spreadsheet export spells them
PoliceHeadersLoose ==
    <<<<" ", "N", "A", "M", "E">>, H_District, H_State, H_Address, H_Contact,
      H_Latitude \o <<" ">>, H_Longitude \o <<" ">>>>

\* the POI rows are dictionaries already; the header is not used to map them
PoiHeaders == <<>>

\* rows of the police CSV: the cells under PoliceHeaders
PoliceFull == <<<<"A">>, <<"a">>, <<"s">>, <<"d">>, <<"7">>, <<"1">>, <<"2">>>>

PoliceBare == <<<<"A", " ">>, <<>>, <<" ">>, <<>>, <<>>, <<>>>>

PoliceOther == <<<<"B">>, <<>>, <<>>, <<"e">>, <<"8">>, <<"x">>, <<"2">>>>

PoliceBlank == <<<<" ">>, <<>>, <<>>, <<>>, <<"9">>>>

UploadInput ==
    [scripts |-> {"poi", "police"},
     rows |-> [s \in {"poi", "police"} |->
                 IF s = "poi" THEN {PoiFull, PoiBare, PoiOther}
                 ELSE {PoliceFull, PoliceBare, PoliceOther}],
     headers |-> [s \in {"poi", "police"} |-> IF s = "poi" THEN {PoiHeaders} ELSE {PoliceHeaders}],
     maxlen |-> MaxRows,
     batch |-> {1, 2},
     dry |-> BOOLEAN,
     rollback |-> BOOLEAN,
     conflict |-> {"ignore", "update"},
     tables |-> {DefaultTable},
     defaults |-> [s \in {"poi", "police"} |->
                     IF s = "poi" THEN {PoiArgsDefault} ELSE {PoliceArgsDefault}],
     maxruns |-> MaxRuns]

UploadStart == ParseArgs(UploadInput)

UploadNext == UploadStart \/ MainSteps

\* Repeated runs of one uploader against the destination table.
SpecUpload == UploaderInit /\ [][UploadNext]_vars

\* ------------------------------------------------- claims on SpecUpload

\* the relation the current run writes
Stored == Relation(sink, args.table)

StoredBefore == Relation(sink0, args.table)

\* the run committed: conn.commit() returned
Committed == pc = "done" /\ conn.commits = 1 /\ error = "none"

\* the CSV rows of the run whose mapped name is n (upload_poi_to_pg.py)
PoiRowsNamed(n) ==
    {i \in 1..Len(args.csv_rows) :
        Truthy(PoiName(args.csv_rows[i])) /\ Prefix(PoiName(args.csv_rows[i]), NameMax) = n}

\* the CSV rows of the run whose mapped name is n (police uploader)
PoliceRowsNamed(n) ==
    {i \in 1..Len(args.csv_rows) :
        Truthy(PoliceGet(PoliceRow(i), <<H_Name>>))
        /\ Prefix(PoliceGet(PoliceRow(i), <<H_Name>>), NameMax) = n}

EmptyCell(v) == v = None \/ v = <<>>

KeptFields == {"phone", "website", "state", "pincode", "pluscode", "area", "city",
               "address", "lat", "lon"}

\* A committed `update` run left field f of the row named n as it was
\* stored, when every row of the run named n came with f unset.
KeepsStored(n, f) ==
    (/\ StoredBefore[n][f] # None
     /\ \E i \in 1..Len(mapped) : mapped[i].name = n
     /\ \A i \in 1..Len(mapped) : mapped[i].name = n => mapped[i][f] = None)
    => Stored[n][f] = StoredBefore[n][f]

\* C2: POI uploader, policy update: a committed run whose rows for a stored
\* name N carry an empty or missing phone leaves the stored non-empty phone
\* of N as it was; the same for website, state, pincode, pluscode, area,
\* city, address, lat and lon when the incoming value is unset.
C2_PoiUpdateKeepsStored ==
    (script = "poi" /\ args.on_conflict = "update" /\ Committed) =>
        \A n \in DOMAIN StoredBefore :
            /\ \A f \in KeptFields : KeepsStored(n, f)
            /\ (/\ StoredBefore[n].phone # None
                /\ PoiRowsNamed(n) # {}
                /\ \A i \in PoiRowsNamed(n) : EmptyCell(Get(args.csv_rows[i], "phone")))
               => Stored[n].phone = StoredBefore[n].phone

\* a committed update run met a stored phone with a row whose phone is empty
C2_Witness ==
    /\ script = "poi" /\ args.on_conflict = "update" /\ Committed
    /\ \E n \in DOMAIN StoredBefore :
          /\ StoredBefore[n].phone = <<"7">>
          /\ PoiRowsNamed(n) # {}
          /\ \A i \in PoiRowsNamed(n) : EmptyCell(Get(args.csv_rows[i], "phone"))
          /\ Stored[n].phone = <<"7">>
          /\ Stored[n].updated # StoredBefore[n].updated

\* C3: police uploader, policy update: a committed run whose rows for a
\* stored name N come with a mutable field unset leaves the stored value.
C3_PoliceUpdateKeepsStored ==
    (script = "police" /\ args.on_conflict = "update" /\ Committed) =>
        \A n \in DOMAIN StoredBefore :
            /\ \A f \in {"phone", "address", "state", "lat", "lon", "area", "city"} : KeepsStored(n, f)
            /\ (/\ StoredBefore[n].phone # None
                /\ PoliceRowsNamed(n) # {}
                /\ \A i \in PoliceRowsNamed(n) : EmptyCell(PoliceGet(PoliceRow(i), <<H_Contact>>)))
               => Stored[n].phone = StoredBefore[n].phone

\* C4: policy ignore: no step of a run changes a row that is stored, be it
\* committed or written earlier in the same transaction, and the sink never
\* rejects a statement because of a duplicate name.
C4_IgnoreFirstWriteWins ==
    [][args.on_conflict = "ignore" =>
         /\ \A n \in DOMAIN Stored :
               n \in DOMAIN Relation(sink', args.table) /\ Relation(sink', args.table)[n] = Stored[n]
         /\ (pc = "batches" /\ pc' = "batches") =>
               \A n \in DOMAIN Relation(txn, args.table) :
                  /\ n \in DOMAIN Relation(txn', args.table)
                  /\ Relation(txn', args.table)[n] = Relation(txn, args.table)[n]
         /\ error' # "statement"]_vars

\* an ignore run committed although it carried a different row for a stored name
C4_Witness ==
    /\ args.on_conflict = "ignore" /\ Committed
    /\ \E i \in 1..Len(mapped) :
          /\ mapped[i].name \in DOMAIN StoredBefore
          /\ mapped[i].phone # StoredBefore[mapped[i].name].phone
          /\ Stored[mapped[i].name] = StoredBefore[mapped[i].name]
    /\ \E i, j \in 1..Len(mapped) : i < j /\ mapped[i].name = mapped[j].name

\* C5: a batch failing at the sink rolls the transaction back and leaves
\* main by the exception; nothing of the run is committed, whichever batch failed.
C5_FailedBatchRollsBack ==
    error \in {"statement", "connection"} =>
        /\ pc = "raised"
        /\ sink = sink0
        /\ txn = sink
        /\ conn.rollbacks = 1
        /\ conn.commits = 0
        /\ conn.closes = 1

\* the second batch failed after the first had written a new row
C5_Witness ==
    /\ error = "connection"
    /\ conn.executes = 2
    /\ BatchSize = 1
    /\ mapped[1].name \notin DOMAIN StoredBefore
    /\ sink = sink0

\* C6: rollback mode: every batch is executed, commit is never called and
\* the committed database stays what it was, whether or not a batch fails.
C6_RollbackModeNeverCommits ==
    (args.rollback /\ ~args.dry_run) =>
        /\ conn.commits = 0
        /\ sink = sink0
        /\ (pc = "done" =>
              /\ conn.rollbacks = 1
              /\ txn = sink
              /\ cursor >= Len(mapped)
              /\ conn.executes * BatchSize >= Len(mapped)
              /\ (conn.executes - 1) * BatchSize < Len(mapped) \/ conn.executes = 0)

\* a rollback-mode run executed two batches of new rows and ended
C6_Witness ==
    /\ args.rollback /\ ~args.dry_run /\ pc = "done"
    /\ conn.executes = 2
    /\ mapped[1].name \notin DOMAIN StoredBefore
    /\ sink = sink0

\* ---------------------------------------------------- dry run: preview

MaxPreviewRows == 6

PreviewInput ==
    [scripts |-> {"poi", "police"},
     rows |-> [s \in {"poi", "police"} |->
                 IF s = "poi" THEN {PoiFull, PoiOther, PoiBlank}
                 ELSE {PoliceFull, PoliceBlank}],
     headers |-> [s \in {"poi", "police"} |-> IF s = "poi" THEN {PoiHeaders} ELSE {PoliceHeaders, PoliceHeadersLoose}],
     maxlen |-> MaxPreviewRows,
     batch |-> {4},
     dry |-> BOOLEAN,
     rollback |-> BOOLEAN,
     conflict |-> {"ignore"},
     tables |-> {DefaultTable},
     defaults |-> [s \in {"poi", "police"} |->
                     IF s = "poi" THEN {PoiArgsDefault, PoiArgsOverride}
                     ELSE {PoliceArgsDefault, PoliceArgsOverride}],
     maxruns |-> 1]

PreviewStart == ParseArgs(PreviewInput)

PreviewNext == PreviewStart \/ MainSteps

\* One run over a CSV file longer than the preview.
SpecPreview == UploaderInit /\ [][PreviewNext]_vars

\* C7: a dry run maps the rows, shows at most the first 5 mapped rows in
\* mapped order, and ends; it never opens a connection, executes, commits
\* or rolls back, and the database is unchanged.
C7_DryRunTouchesNothing ==
    args.dry_run =>
        /\ conn = NoConn
        /\ sql = NoSql
        /\ error = "none"
        /\ sink = sink0
        /\ txn = sink0
        /\ pc \in {"loaded", "mapped", "done"}
        /\ (pc = "done" =>
              /\ Len(preview) = (IF Len(mapped) < 5 THEN Len(mapped) ELSE 5)
              /\ \A i \in 1..Len(preview) : preview[i] = mapped[i])

\* a dry run over six mapped rows, not all alike, showed five
C7_Witness ==
    /\ args.dry_run
    /\ pc = "done"
    /\ Len(mapped) = 6
    /\ Len(preview) = 5
    /\ mapped[1] # mapped[6]

\* ---------------------------------------------- destination table option

MaxTableLen == 3

TableChars == {"t", ".", ";", "\n"}

TableInput ==
    [scripts |-> {"poi", "police"},
     rows |-> [s \in {"poi", "police"} |-> IF s = "poi" THEN {PoiFull} ELSE {PoliceFull}],
     headers |-> [s \in {"poi", "police"} |-> IF s = "poi" THEN {PoiHeaders} ELSE {PoliceHeaders}],
     maxlen |-> 1,
     batch |-> {1000},
     dry |-> BOOLEAN,
     rollback |-> BOOLEAN,
     conflict |-> {"ignore", "update"},
     tables |-> SeqsUpTo(TableChars, MaxTableLen) \cup {DefaultTable, StagingTable},
     defaults |-> [s \in {"poi", "police"} |->
                     IF s = "poi" THEN {PoiArgsDefault} ELSE {PoliceArgsDefault}],
     maxruns |-> 1]

TableStart == ParseArgs(TableInput)

TableNext == TableStart \/ MainSteps

\* One run with any --table value.
SpecTable == UploaderInit /\ [][TableNext]_vars

\* letters, digits and underscores, with at most one dot-separated schema prefix
PlainIdentifier(t) ==
    /\ t # <<>>
    /\ \A i \in 1..Len(t) : IsWordChar(t[i]) \/ t[i] = "."
    /\ Cardinality({i \in 1..Len(t) : t[i] = "."}) <= 1
    /\ t[1] # "." /\ t[Len(t)] # "."

\* C8: a run with an invalid --table value never opens the connection:
\* the identifier is rejected first.
C8_InvalidTableNeverConnects == ~PlainIdentifier(args.table) => conn.opens = 0

\* --------------------------------------------------- mapping of one file

MaxMapRows == 2

\* a column the CSV file does not have
Absent == <<"ABSENT">>

\* a csv.DictReader row of the POI file with these cells; an Absent cell
\* is a column the file does not have
PoiCsvRow(name, lat, lon, address, city) ==
    LET cells == [name |-> name, lat |-> lat, lon |-> lon, address |-> address, city |-> city]
    IN  [k \in {c \in DOMAIN cells : cells[c] # Absent} |-> cells[k]]

\* name cells of rows that are mapped, and of rows that are not
PoiNameCells == {<<"A">>, <<" ", "A", " ">>}

PoiNoNameCells == {Absent, <<>>, <<" ">>}

\* lat and lon cells: both numbers, one not a number, one empty, one
\* missing, and numbers written with blanks and a sign
CoordinateCells ==
    {<<<<"1">>, <<"2">>>>, <<<<"x">>, <<"2">>>>, <<<<"1">>, <<>>>>,
     <<Absent, <<"2">>>>, <<<<" ", "1">>, <<"-", "2", " ">>>>}

\* address and city cells
PoiAddressCells == {<<Absent, Absent>>, <<<<"d">>, <<"c">>>>, <<<<" ">>, <<>>>>}

\* a name longer than the name column is wide, with nothing else in the row
PoiLongName == [name |-> [i \in 1..(NameMax + 1) |-> IF i <= NameMax THEN "n" ELSE "m"]]

PoiMapRows ==
    {PoiCsvRow(n, c[1], c[2], a[1], a[2]) :
        n \in PoiNameCells, c \in CoordinateCells, a \in PoiAddressCells}
    \cup {PoiCsvRow(n, <<"1">>, <<"2">>, <<"d">>, <<"c">>) : n \in PoiNoNameCells}
    \cup {PoiLongName}

\* headers of a police CSV: the template's, a spreadsheet's spelling of
\* them, one without a name column, and one with a second name column
\* that the rows leave empty
PoliceMapHeaders ==
    {<<H_Name, H_Address, H_Latitude, H_Longitude>>,
     <<<<" ", "N", "A", "M", "E">>, H_Address, H_Latitude \o <<" ">>, H_Longitude \o <<" ">>>>,
     <<<<"S", "t", "a", "t", "i", "o", "n">>, H_Address, H_Latitude, H_Longitude>>,
     <<H_Name, H_Address, H_Latitude, H_Longitude, <<"n", "a", "m", "e">>>>}

PoliceNameCells == {<<" ", "A", " ">>}

PoliceNoNameCells == {<<>>, <<" ">>}

PoliceCoordinateCells == {c \in CoordinateCells : c[1] # Absent}

PoliceAddressCells == {<<>>, <<"d">>}

\* the cells of a police row under a header of PoliceMapHeaders
PoliceMapRows ==
    {<<n, a, c[1], c[2]>> :
        n \in PoliceNameCells, a \in PoliceAddressCells, c \in PoliceCoordinateCells}
    \cup {<<n, <<"d">>, <<"1">>, <<"2">>>> : n \in PoliceNoNameCells}

MapInput ==
    [scripts |-> {"poi", "police"},
     rows |-> [s \in {"poi", "police"} |-> IF s = "poi" THEN PoiMapRows ELSE PoliceMapRows],
     headers |-> [s \in {"poi", "police"} |-> IF s = "poi" THEN {PoiHeaders} ELSE PoliceMapHeaders],
     maxlen |-> MaxMapRows,
     batch |-> {1000},
     dry |-> {TRUE},
     rollback |-> {FALSE},
     conflict |-> {"ignore"},
     tables |-> {DefaultTable},
     defaults |-> [s \in {"poi", "police"} |->
                     IF s = "poi" THEN {PoiArgsDefault} ELSE {PoliceArgsDefault}],
     maxruns |-> 1]

MapStart == ParseArgs(MapInput)

MapNext == MapStart \/ MapRows \/ DryRun \/ Exit

\* One dry run over a file of any rows: the mapping alone.
SpecMap == UploaderInit /\ [][MapNext]_vars

\* the name cell of the i-th row as the file has it: None when the row
\* has no name column (for the police file, the last column whose header
\* reads "name" whatever its case and spacing) or no cell in it
RawName(i) ==
    IF script = "poi" THEN Get(args.csv_rows[i], "name")
    ELSE LET cols == {k \in 1..Len(args.headers) :
                         CanonicalHeader(args.headers[k]) = <<"n", "a", "m", "e">>}
         IN  IF cols = {} THEN None
             ELSE LET k == CHOOSE c \in cols : \A d \in cols : d <= c
                  IN  IF k <= Len(args.csv_rows[i]) THEN args.csv_rows[i][k] ELSE None

\* nothing but blanks, or nothing at all
Blank(cell) == cell = None \/ \A k \in 1..Len(cell) : IsSpace(cell[k])

RowsWhere(P(_)) == {i \in 1..Len(args.csv_rows) : P(i)}

BlankName(i) == Blank(RawName(i))

NamedRow(i) == ~Blank(RawName(i))

EmptyName(i) == RawName(i) \in {None, <<>>}

NonEmptyName(i) == RawName(i) \notin {None, <<>>}

Skips(i) == MapRow(args.csv_rows[i], args.defaults, runs) = NoneRow

\* C9 as stated: a row is skipped exactly when its name is empty or
\* missing, every row with a non-empty name is mapped, and mapped + skipped
\* is the number of rows loaded.
C9_SkipsIffNameEmptyOrMissing ==
    pc \in {"mapped", "done"} =>
        /\ \A i \in 1..Len(args.csv_rows) : Skips(i) <=> EmptyName(i)
        /\ skipped = Cardinality(RowsWhere(EmptyName))
        /\ Len(mapped) = Cardinality(RowsWhere(NonEmptyName))
        /\ Len(mapped) + skipped = Len(args.csv_rows)

\* C9 (amended): a row is skipped exactly when its name is missing or is
\* empty once the blanks around it are trimmed; every other row is mapped,
\* in file order, and mapped + skipped is the number of rows loaded.
C9_SkipsIffNameBlank ==
    pc \in {"mapped", "done"} =>
        /\ \A i \in 1..Len(args.csv_rows) : Skips(i) <=> BlankName(i)
        /\ skipped = Cardinality(RowsWhere(BlankName))
        /\ Len(mapped) = Cardinality(RowsWhere(NamedRow))
        /\ Len(mapped) + skipped = Len(args.csv_rows)
        /\ \A i \in RowsWhere(NamedRow) :
              mapped[Cardinality({j \in RowsWhere(NamedRow) : j <= i})].name
                  = Prefix(Strip(RawName(i)), NameMax)

\* a file with a row whose name is only a blank, skipped, and a row with
\* a name, mapped
C9_Witness ==
    /\ pc = "mapped"
    /\ Len(args.csv_rows) = 2
    /\ RawName(1) = <<" ">>
    /\ RawName(2) = <<" ", "A", " ">>
    /\ skipped = 1
    /\ Len(mapped) = 1

\* the rows of the file that are mapped, in file order
NamedRows == RowsWhere(NamedRow)

\* the mapped row that the i-th row of the file became
MappedOf(i) == mapped[Cardinality({j \in NamedRows : j <= i})]

\* the cell of the i-th row under the first of these headers the file has
CellUnder(i, candidate_headers) ==
    LET k == FirstHit(PoliceRow(i), candidate_headers, 1)
    IN  IF k = 0 THEN None ELSE PoliceRow(i)[k][2]

LatCell(i) == IF script = "poi" THEN Get(args.csv_rows[i], "lat") ELSE CellUnder(i, LatitudeCandidates)

LonCell(i) == IF script = "poi" THEN Get(args.csv_rows[i], "lon") ELSE CellUnder(i, LongitudeCandidates)

\* the cell reads as a number: blanks, an optional sign, digits, blanks
Numeric(cell) ==
    /\ cell # None
    /\ \E a \in 1..Len(cell), b \in 1..Len(cell) :
          /\ a <= b
          /\ \A k \in 1..Len(cell) : (k < a \/ k > b) => IsSpace(cell[k])
          /\ \/ AllDigits(SubSeq(cell, a, b))
             \/ cell[a] \in {"+", "-"} /\ AllDigits(SubSeq(cell, a + 1, b))

Trimmed(cell) == IF cell = None THEN <<>> ELSE Strip(cell)

\* the address parts of the i-th row, in the order they are joined
AddressParts(i) ==
    IF script = "poi"
    THEN LET row == args.csv_rows[i]
         IN  <<Trimmed(Get(row, "address")),
               Trimmed(IF Get(row, "plus_code") \in {None, <<>>} THEN Get(row, "pluscode")
                       ELSE Get(row, "plus_code")),
               Trimmed(Get(row, "area")), Trimmed(Get(row, "city")),
               Trimmed(Get(row, "formatted_address"))>>
    ELSE <<Trimmed(CellUnder(i, <<H_Address>>))>>

CoordinatePattern(i) ==
    <<"[", "[">> \o FloatRepr(FloatOf(LatCell(i))) \o <<",">>
                 \o FloatRepr(FloatOf(LonCell(i))) \o <<"]", "]">>

AddressJoin(i) == Join(NonEmpty(AddressParts(i)), S_PlusSep)

\* the text is written as the coordinate pattern is: "[[" ... "]]"
Bracketed(loc) ==
    /\ Len(loc) >= 4
    /\ SubSeq(loc, 1, 2) = <<"[", "[">>
    /\ SubSeq(loc, Len(loc) - 1, Len(loc)) = <<"]", "]">>

MaxDedupRows == 3

\* the header of combined_places.csv: with both address columns, with one,
\* with none, and without the name
CsvColumns ==
    {{"name", "formatted_address", "vicinity"}, {"name", "formatted_address"},
     {"name", "vicinity"}, {"name"}, {"formatted_address"}}

\* the texts of the cells of combined_places.csv, by column
CsvTexts ==
    [c \in {"name", "formatted_address", "vicinity"} |->
        IF c = "name" THEN {<<>>, <<"a">>, <<"a", " ">>, <<"N", "A">>} ELSE {<<>>, <<"f">>}]

\* an entry of a result file with these values; an Absent value is a key
\* the entry does not have
Entry(name, formatted_address, vicinity) ==
    LET values == [name |-> name, formatted_address |-> formatted_address, vicinity |-> vicinity]
    IN  [k \in {c \in DOMAIN values : values[c] # Absent} |-> values[k]]

EntryNames == {Absent, <<"a">>, <<"A">>, <<"n", "a", "n">>}

\* formatted_address and vicinity of an entry
EntryAddresses ==
    {<<Absent, Absent>>, <<<<"f">>, Absent>>, <<Absent, <<"f">>>>, <<<<>>, Absent>>, <<<<>>, <<"f">>>>}

\* the entries: every address under one name, two under the others
Entries ==
    {Entry(n, a[1], a[2]) : n \in EntryNames, a \in {<<Absent, Absent>>, <<<<"f">>, Absent>>}}
        \cup {Entry(<<"a">>, a[1], a[2]) : a \in EntryAddresses}

\* the entries cut into result files after these positions
RECURSIVE Cut(_, _, _)
Cut(entries, cuts, from) ==
    IF from > Len(entries) THEN <<>>
    ELSE LET ends == {c \in cuts : c >= from} \cup {Len(entries)}
             to == CHOOSE c \in ends : \A d \in ends : c <= d
         IN  <<SubSeq(entries, from, to)>> \o Cut(entries, cuts, to + 1)

\* the result files: one file or more, each a list of one entry or more,
\* with MaxDedupRows entries at most in all
ResultFiles ==
    {Cut(entries, cuts, 1) :
        entries \in SeqsUpTo(Entries, MaxDedupRows) \ {<<>>},
        cuts \in SUBSET (1..(MaxDedupRows - 1))}

DedupInput ==
    [columns |-> CsvColumns, texts |-> CsvTexts, maxlen |-> MaxDedupRows, files |-> ResultFiles]

ReadCsvStart == ReadCombinedCsv(DedupInput)

LoadStart == LoadResultFiles(DedupInput)

DedupNext ==
    \/ ReadCsvStart
    \/ NameColumnMissing
    \/ DedupeCombinedPlaces
    \/ LoadStart
    \/ DedupeNoLatLon
    \/ ReadDedupedCsv
    \/ TakeDedupedAgain
    \/ DedupExit

DedupStartState == UpInit /\ script = "poi" /\ DdInit /\ CbInit

\* Runs of either deduplicator over any table.
SpecDedup == DedupStartState /\ [][DedupNext]_vars

\* the address the deduplication gives the row at position i of the loaded
\* table: formatted_address if the row has one, else vicinity, else empty
AddressOf(i) ==
    LET row == df0.rows[i]
        Has(c) == c \in df0.columns /\ NotNa(row[c])
    IN  IF Has("formatted_address") THEN row["formatted_address"]
        ELSE IF Has("vicinity") THEN row["vicinity"]
        ELSE <<>>

\* the name of the row at position i of the loaded table as the
\* deduplicator compares it: the cell as it is for the CSV deduplicator,
\* the text of the cell for the no-lat/lon one (a missing name has the
\* text of the missing value)
NameOf(i) ==
    LET cell == df0.rows[i]["name"]
    IN  IF variant = "csv" \/ NotNa(cell) THEN cell
        ELSE IF cell = NaN THEN <<"n", "a", "n">> ELSE <<"<", "N", "A", ">">>

\* the identity key of the row at position i of the loaded table
KeyOf(i) == <<NameOf(i), AddressOf(i)>>

\* the position in the loaded table of the k-th output row
SourceOf(k) ==
    LET at == {p \in 1..Len(df0.rows) : df0.index[p] = deduped.index[k]}
    IN  IF at = {} THEN 0 ELSE CHOOSE p \in at : TRUE

Deduplicated == dpc = "done" /\ "name" \in df0.columns

\* C1: after either deduplicator, no two output rows have the same (name,
\* address) pair, compared as exact text; the output rows are rows of the
\* input in input order; and of the rows with one key the first in the
\* input is the one that is kept.
C1_DedupKeepsFirstOfEachKey ==
    Deduplicated =>
        /\ \A k, l \in 1..Len(deduped.rows) :
              k # l => <<deduped.rows[k]["name"], deduped.rows[k]["address"]>>
                           # <<deduped.rows[l]["name"], deduped.rows[l]["address"]>>
        /\ \A k \in 1..Len(deduped.rows) :
              /\ SourceOf(k) \in 1..Len(df0.rows)
              /\ k > 1 => SourceOf(k - 1) < SourceOf(k)
              /\ \A c \in df0.columns \ {"name", "address"} :
                    deduped.rows[k][c] = df0.rows[SourceOf(k)][c]
              /\ <<deduped.rows[k]["name"], deduped.rows[k]["address"]>> = KeyOf(SourceOf(k))
        /\ \A i \in 1..Len(df0.rows) :
              (\E k \in 1..Len(deduped.rows) : SourceOf(k) = i)
                  <=> (\A j \in 1..(i - 1) : KeyOf(j) # KeyOf(i))

\* three rows were deduplicated: the first and the third have one key and
\* differ in their address columns, the second has another key; the first
\* two are kept
C1_Witness ==
    /\ Deduplicated
    /\ Len(df0.rows) = 3
    /\ KeyOf(1) = KeyOf(3)
    /\ KeyOf(1) # KeyOf(2)
    /\ df0.rows[1] # df0.rows[3]
    /\ deduped.index = <<0, 1>>

\* ------------------------------------------- description and address

\* C11: for every POI row that is mapped, description and address are both
\* the " + " join, in the order address, plus_code, area, city,
\* formatted_address, of the non-empty trimmed parts, and both are the name
\* when all five parts are empty.
C11_DescriptionAndAddressJoin ==
    (script = "poi" /\ pc \in {"mapped", "done"}) =>
        \A i \in NamedRows :
            LET expected == IF AddressJoin(i) # <<>> THEN AddressJoin(i) ELSE MappedOf(i).name
            IN  /\ MappedOf(i).description = expected
                /\ MappedOf(i).address = expected

\* ------------------------------------------------------- idempotence

\* the run read what the run before it had produced
SecondRun == dpc = "done" /\ prev # NoFrame

\* C12: a deduplicator run on its own output removes no row and yields
\* the same table: for dedupe_combined_places.py the output file, with
\* its address column, read back and deduplicated is written as the same
\* file; for stats_deduped_no_latlon.py the deduplication of the table it
\* produced is that table.
C12_DedupIdempotent ==
    SecondRun =>
        /\ Len(deduped.rows) = Len(df0.rows)
        /\ Len(deduped.rows) = Len(prev.rows)
        /\ variant = "csv" => ToCsv(deduped) = ToCsv(prev)
        /\ variant = "nolatlon" => deduped = prev

\* the first run dropped the second of three rows and kept a row with no
\* address; the second run, over the file read back, has ended
C12_Witness ==
    /\ SecondRun
    /\ variant = "csv"
    /\ prev.index = <<0, 2>>
    /\ "address" \in df0.columns
    /\ \E k \in 1..2 : prev.rows[k]["address"] = <<>> /\ df0.rows[k]["address"] = NaN
    /\ "formatted_address" \in df0.columns
    /\ \E k \in 1..2 : NotNa(df0.rows[k]["formatted_address"])

\* ------------------------------------------------ synthesized address

\* the cell of the row at position i of the loaded table under a column:
\* empty when the column is not there, the value is missing or the text
\* is empty
ValueUnder(i, c) ==
    IF c \in df0.columns /\ NotNa(df0.rows[i][c]) THEN df0.rows[i][c] ELSE <<>>

\* formatted_address when it carries a non-empty value, else vicinity,
\* else the empty text
NonEmptyAddressOf(i) ==
    IF ValueUnder(i, "formatted_address") # <<>> THEN ValueUnder(i, "formatted_address")
    ELSE ValueUnder(i, "vicinity")

FirstRun == Deduplicated /\ prev = NoFrame

\* C13: in both variants the address of every kept row is its
\* formatted_address when that is a non-empty value, else its vicinity,
\* else the empty text, an empty formatted_address counting as an absent
\* one; and of two rows with one name and no non-empty address value at
\* all, only the first is kept.
C13_EmptyAddressAsAbsent ==
    FirstRun =>
        /\ \A k \in 1..Len(deduped.rows) :
              deduped.rows[k]["address"] = NonEmptyAddressOf(SourceOf(k))
        /\ \A i, j \in 1..Len(df0.rows) :
              (i < j /\ NameOf(i) = NameOf(j)
                  /\ NonEmptyAddressOf(i) = <<>> /\ NonEmptyAddressOf(j) = <<>>
                  /\ ValueUnder(i, "vicinity") = <<>> /\ ValueUnder(j, "vicinity") = <<>>)
                  => \A k \in 1..Len(deduped.rows) : SourceOf(k) # j

\* ------------------------------------------------- specification: names

MaxTokens == 4

\* the tokens of a file name: underscore-free texts and the empty one
NameTokens == {<<"A">>, <<"b">>, <<"N", "y">>, <<>>}

\* a directory in front of the name, or none
NameDirs == {<<>>, <<"d", "_", "x", "/">>}

\* file paths with the prefix and the extension of a result file or others
NamePaths ==
    {d \o p \o Join(tokens, <<"_">>) \o e :
        d \in NameDirs,
        p \in {S_results_, <<"r", "e", "s", "u", "l", "t", "_">>, <<>>},
        tokens \in SeqsUpTo(NameTokens, MaxTokens),
        e \in {S_json, <<".", "c", "s", "v">>}}

NameInput == [paths |-> NamePaths]

NamesStart == ParseFilenameInfoCalled(NameInput)

NamesInit == UpInit /\ script = "poi" /\ DdInit /\ variant = "nolatlon" /\ CbInit

\* parse_filename_info of both scripts called with any path.
SpecNames == NamesInit /\ [][NamesStart]_vars

\* the path is that of results_<tokens joined by "_">.json in a directory
ResultPath(tokens) ==
    \E d \in NameDirs : filepath = d \o S_results_ \o Join(tokens, <<"_">>) \o S_json

\* C17: for the path of results_A_B_C.json parse_filename_info of either
\* script gives location_type A, area B, city C, for results_A_B_C_D.json
\* location_type A, area "B_C", city D; with two tokens or more the first
\* is the type, the last the city and the ones between, joined by "_",
\* the area.
C17_TokensToTypeAreaCity ==
    \A tokens \in SeqsUpTo(NameTokens, MaxTokens) :
        (Len(tokens) >= 2 /\ ResultPath(tokens)) =>
            LET expected ==
                    [location_type |-> tokens[1],
                     area |-> Join(SubSeq(tokens, 2, Len(tokens) - 1), <<"_">>),
                     city |-> tokens[Len(tokens)]]
            IN  meta = expected /\ dmeta = expected

\* parse_filename_info was called with d_x/results_A_b_Ny_A.json
C17_Witness ==
    /\ ResultPath(<<<<"A">>, <<"b">>, <<"N", "y">>, <<"A">>>>)
    /\ BaseName(filepath) # filepath
    /\ meta.area = <<"b", "_", "N", "y">>
    /\ dmeta.city = <<"A">>

\* the number of underscores of a text
Underscores(s) == Cardinality({i \in 1..Len(s) : s[i] = "_"})

\* the name has the prefix, the extension and two tokens or more
MatchesGrammar(path) ==
    /\ StartsWith(BaseName(path), S_results_)
    /\ EndsWith(BaseName(path), S_json)
    /\ Underscores(BaseName(path)) >= 2

Called == filepath # <<>>

AllUnknown == [location_type |-> S_unknown, area |-> S_unknown, city |-> S_unknown]

\* C18: for a path whose name has another prefix, another extension or
\* fewer than two tokens (results_X.json), parse_filename_info of either
\* script returns "unknown" for location_type, area and city.
C18_UnmatchedNameAllUnknown ==
    (Called /\ ~MatchesGrammar(filepath)) => (meta = AllUnknown /\ dmeta = AllUnknown)

\* ----------------------------------------- specification: consolidation

MaxCbEntries == 2

\* names of result files in sorted order
ResultNames ==
    <<S_results_ \o S_json,
      S_results_ \o <<"A", "_", "b", "_", "C">> \o S_json,
      S_results_ \o <<"A", "_", "b", "_", "d", "_", "C">> \o S_json,
      S_results_ \o <<"X">> \o S_json,
      S_results_ \o <<"Y", "_", "z">> \o S_json>>

\* records of result files: coordinates under several keys, numbers and
\* texts, in range and out of it, nested and flat
CbEntries ==
    {Dict([name |-> <<"a">>, lat |-> IntVal(10), lng |-> IntVal(20)]),
     Dict([name |-> <<"a">>, lat |-> <<"9", "1">>, lng |-> <<"2", "0">>]),
     Dict([name |-> <<"b">>, geometry |-> Dict([location |-> Dict([lat |-> Float(1, 90), lng |-> Float(-1, 180)])])]),
     Dict([name |-> <<"b">>, lat |-> <<"x">>, latitude |-> IntVal(-5), lon |-> None, lng |-> <<"7">>]),
     Dict([name |-> <<"c">>, vicinity |-> <<"f">>]),
     Dict([name |-> <<"c">>, lat |-> Inf(1), latitude |-> IntVal(1), lng |-> IntVal(1)]),
     Dict([name |-> <<"a">>, lat |-> IntVal(10), lon |-> <<"x">>, longitude |-> IntVal(181)])}

\* the content of a file with these entries: a list, a mapping with the
\* list under a wrapper key, or the record itself when there is one
Wrapped(entries, shape) ==
    IF shape = "data" THEN Dict([results |-> <<"x">>, data |-> List(entries)])
    ELSE IF shape = "record" /\ Len(entries) = 1 THEN entries[1]
    ELSE List(entries)

\* contents that give no entry
Malformed == {Invalid, Scalar, List(<<>>)}

\* the contents with one more put in at a position, when there is one
WithMalformed(contents, bad, at) ==
    IF bad = Absent \/ at > Len(contents) THEN contents
    ELSE SubSeq(contents, 1, at) \o <<bad>> \o SubSeq(contents, at + 1, Len(contents))

\* the directory with these contents under the first names
Named(contents) == [k \in 1..Len(contents) |-> [name |-> ResultNames[k], data |-> contents[k]]]

\* directories of result files: MaxCbEntries entries at most in all, cut
\* into files, and one malformed file at most before, between or after
ResultDirs ==
    {Named(WithMalformed([k \in 1..Len(Cut(entries, cuts, 1)) |->
                             Wrapped(Cut(entries, cuts, 1)[k], shape)], bad, at)) :
        entries \in SeqsUpTo(CbEntries, MaxCbEntries),
        cuts \in SUBSET (1..(MaxCbEntries - 1)),
        shape \in {"list", "data", "record"},
        bad \in Malformed \cup {Absent},
        at \in 0..MaxCbEntries}

CbInput == [dirs |-> ResultDirs]

NoFilesStart == NoResultFiles(CbInput)

FindStart == FindResultFiles(CbInput)

CbNext ==
    \/ NoFilesStart
    \/ FindStart
    \/ LoadEntriesRaises
    \/ SkipFile
    \/ ProcessFile
    \/ NoFrames
    \/ WriteOutputs
    \/ LoadFoundFilesRaises
    \/ LoadFoundFiles
    \/ DedupeNoLatLon

\* Runs of build_central_db.py over any directory, and of
\* stats_deduped_no_latlon.py over the same directory after it.
SpecConsolidate == NamesInit /\ [][CbNext]_vars

\* the canonical coordinates of a row
LatOf(row) == row["lat"]

LonOf(row) == row["lon"]

\* a finite number within the bounds, both included
Within(x, lo, hi) ==
    /\ x[1] = "float"
    /\ \E n \in lo..hi : n = x[2] * x[3]

Written == cpc = "done" /\ OUTPUT_COMBINED_CSV \in outputs

\* the rows normalize_entries gave, file after file
NormalRows == ConcatRows(normal, UNION {normal[k].columns : k \in 1..Len(normal)})

\* C14: every row of the combined table has a finite canonical lat
\* within [-90, 90] and a finite canonical lon within [-180, 180], bounds
\* included; the rows of the combined table are as many as the normalized
\* rows with such coordinates, so that no row without them is in it.
C14_CombinedRowsValid ==
    Written =>
        /\ \A i \in 1..Len(combined.rows) :
              /\ Within(LatOf(combined.rows[i]), -90, 90)
              /\ Within(LonOf(combined.rows[i]), -180, 180)
        /\ Len(combined.rows) =
              Cardinality({i \in 1..Len(NormalRows) :
                              /\ Within(LatOf(NormalRows[i]), -90, 90)
                              /\ Within(LonOf(NormalRows[i]), -180, 180)})

\* the combined table was written with a row on the bounds; a row with an
\* out-of-range latitude and one with none were left out
C14_Witness ==
    /\ Written
    /\ \E i \in 1..Len(combined.rows) :
          LatOf(combined.rows[i]) = Float(1, 90) /\ LonOf(combined.rows[i]) = Float(-1, 180)
    /\ Len(combined.rows) = 1
    /\ Len(NormalRows) = 2
    /\ \E i \in 1..2 : LatOf(NormalRows[i]) \in {Float(1, 91), NaN}

\* both scripts have run over the directory to their end
BothRan == cpc = "done" /\ Deduplicated /\ dir # <<>>

\* the row at position i of the loaded table has a numeric latitude out
\* of range
LatOutOfRange(i) ==
    /\ LatOf(NormalRows[i])[1] \in {"float", "inf"}
    /\ ~Within(LatOf(NormalRows[i]), -90, 90)

\* C15: over the same result files, a record with an out-of-range
\* latitude is not in the combined table of build_central_db.py, and it
\* is in the output of stats_deduped_no_latlon.py whenever no record
\* before it has its (name, address) key.
C15_OutOfRangeKeptByNoLatLon ==
    BothRan =>
        /\ Len(NormalRows) = Len(df0.rows)
        /\ \A i \in 1..Len(df0.rows) :
              LatOutOfRange(i) =>
                  /\ \A j \in 1..Len(combined.rows) :
                        LatOf(combined.rows[j]) # LatOf(NormalRows[i])
                  /\ (\A j \in 1..(i - 1) : KeyOf(j) # KeyOf(i))
                        => \E k \in 1..Len(deduped.rows) : SourceOf(k) = i

\* a record with lat "91" and a valid record with another name: the
\* combined table has the valid one only, the deduplicated output both
C15_Witness ==
    /\ BothRan
    /\ Written
    /\ Len(combined.rows) = 1
    /\ Len(deduped.rows) = 2
    /\ "lat" \in df0.columns
    /\ \E i \in 1..2 :
          /\ df0.rows[i]["lat"] = <<"9", "1">>
          /\ LatOutOfRange(i)
          /\ \E k \in 1..2 : SourceOf(k) = i

\* the files of the directory that have entries
FilesWithEntries == SelectSeq(dir, LAMBDA file : LoadEntries(file.data) # <<>>)

\* the table json_normalize gave for the k-th file with entries
RawFrame(k) == JsonNormalizeSep(LoadEntries(FilesWithEntries[k].data))

\* the value is the one of the first candidate that is one of the columns
\* and numeric in the row, or NaN when there is none
FirstNumeric(candidates, columns, row, value) ==
    LET IsNumeric(c) == c \in columns /\ ToNumeric(row[c]) # NaN
    IN  \/ \E p \in 1..Len(candidates) :
              /\ IsNumeric(candidates[p])
              /\ \A q \in 1..(p - 1) : ~IsNumeric(candidates[q])
              /\ value = ToNumeric(row[candidates[p]])
        \/ /\ \A p \in 1..Len(candidates) : ~IsNumeric(candidates[p])
           /\ value = NaN

\* C16: in every row of the table normalize_entries has just given, the
\* canonical lat is the numeric value of the first lat candidate, in the
\* order of the list, that is a column of the table and numeric in that
\* row, and NaN when there is none; the same with the candidates that are
\* not columns taken out of the list; and so for lon.
C16_FirstNumericCandidate ==
    normal # <<>> =>
        LET raw == RawFrame(Len(normal))
            out == normal[Len(normal)]
        IN  \A i \in 1..Len(out.rows) :
                /\ FirstNumeric(LAT_CANDIDATES, raw.columns, raw.rows[i], LatOf(out.rows[i]))
                /\ FirstNumeric(LON_CANDIDATES, raw.columns, raw.rows[i], LonOf(out.rows[i]))
                /\ FirstNumeric(Present(LAT_CANDIDATES, raw.columns), raw.columns, raw.rows[i],
                                LatOf(out.rows[i]))
                /\ FirstNumeric(Present(LON_CANDIDATES, raw.columns), raw.columns, raw.rows[i],
                                LonOf(out.rows[i]))

\* a row whose lat is not numeric and whose latitude is: the canonical
\* lat is the latitude; its lon is null and its lng a text: the canonical
\* lon is the number of that text
C16_Witness ==
    /\ Len(normal) >= 1
    /\ "latitude" \in RawFrame(1).columns
    /\ "lon" \in RawFrame(1).columns
    /\ RawFrame(1).rows[1]["lat"] = <<"x">>
    /\ RawFrame(1).rows[1]["lon"] = None
    /\ LatOf(normal[1].rows[1]) = Float(-1, 5)
    /\ LonOf(normal[1].rows[1]) = Float(1, 7)

\* the run of build_central_db.py has ended, by a return of main
Ended == cpc = "done"

\* C19: with malformed files in the directory, contents json.load does
\* not parse or values that are neither a list nor a mapping, the run of
\* build_central_db.py does not abort: it takes every file, a malformed
\* file gives no table and every file with entries gives one.
C19_MalformedFilesNeverAbort ==
    /\ cpc # "failed"
    /\ Ended =>
          /\ taken = Len(dir)
          /\ Len(normal) = Len(FilesWithEntries)
          /\ \A k \in 1..Len(normal) : normal[k].rows # <<>>

\* no file gave a valid row
NoValidRow == \A k \in 1..Len(frameList) : frameList[k].rows = <<>>

\* C20: when no result file is found, or no file gives a valid row (files
\* with records that all fail the coordinate filter included), the run
\* ends with none of the combined table, the counts table and the summary
\* written, and with the condition printed.
C20_NothingWrittenWithoutValidRows ==
    (Ended /\ NoValidRow) =>
        /\ outputs = {}
        /\ stdout \in {<<S_NoFiles>>, <<S_NoValid>>}

\* ------------------------------------------------- defaulted fields

\* the POI uploader has mapped the rows
PoiMapped == script = "poi" /\ pc \notin {"idle", "loaded"}

\* the option was given on the command line: its value is not the
\* argparse default
Supplied(option) == args.defaults[option] # PoiArgsDefault[option]

\* C21: in every row the POI uploader maps, status, status2, mark_type and
\* created_by_id are the values of --status, --status2, --mark-type and
\* --created-by-id when these are given, and radius, speed_limit and
\* alert_type the values of --radius-default, --speed-limit and
\* --alert-type when these are given.
C21_OverridesReachMappedRow ==
    PoiMapped =>
        \A i \in 1..Len(mapped) :
            /\ Supplied("status") => mapped[i].status = args.defaults.status
            /\ Supplied("status2") => mapped[i].status2 = args.defaults.status2
            /\ Supplied("mark_type") => mapped[i].mark_type = args.defaults.mark_type
            /\ Supplied("created_by_id") => mapped[i].created_by_id = args.defaults.created_by_id
            /\ Supplied("radius_default") => mapped[i].radius = args.defaults.radius_default
            /\ Supplied("speed_limit_override") => mapped[i].speed_limit = args.defaults.speed_limit_override
            /\ Supplied("alert_type_override") => mapped[i].alert_type = args.defaults.alert_type_override

\* ------------------------------------------------- passthrough fields
\* what a passthrough field holds when it is mapped 1:1 from a source cell:
\* the trimmed cell, unset when the cell is absent or blank
Passthrough(cell) == IF Trimmed(cell) = <<>> THEN None ELSE Trimmed(cell)

\* the source cell of each passthrough field of the i-th row; the police
\* CSV has a column for state and phone only
PassthroughCell(i, field) ==
    IF script = "poi"
    THEN Get(args.csv_rows[i], IF field = "pluscode" THEN "plus_code" ELSE field)
    ELSE IF field = "state" THEN CellUnder(i, <<H_State>>)
    ELSE IF field = "phone" THEN CellUnder(i, <<H_Contact>>)
    ELSE None

\* C22: in every mapped row of either uploader, phone, website, state,
\* pincode and pluscode are each the trimmed value of their source column
\* when it is present and non-empty, and unset otherwise.
C22_PassthroughTrimmedOrUnset ==
    pc \notin {"idle", "loaded"} =>
        \A i \in NamedRows :
            \A field \in {"phone", "website", "state", "pincode", "pluscode"} :
                MappedOf(i)[field] = Passthrough(PassthroughCell(i, field))

\* --------------------------------------------- update: overwritten fields
\* the row of the run that carries the stored name n, when there is one only
Incoming(n) == mapped[CHOOSE i \in 1..Len(mapped) : mapped[i].name = n]

Conflicting(n) ==
    /\ n \in DOMAIN StoredBefore
    /\ Cardinality({i \in 1..Len(mapped) : mapped[i].name = n}) = 1

\* C23: POI uploader, policy update: after a committed run every field
\* other than name, created and created_by_id of a stored row the run
\* carried a row for holds the incoming value when that is set; so do
\* description, status, status2, radius, speed_limit and alert_type.
C23_UpdateOverwritesMutableFields ==
    (script = "poi" /\ args.on_conflict = "update" /\ Committed) =>
        \A n \in DOMAIN Stored :
            Conflicting(n) =>
                \A f \in DOMAIN Incoming(n) \ {"name", "created", "created_by_id"} :
                    Incoming(n)[f] # None => Stored[n][f] = Incoming(n)[f]

\* ------------------------------------------------- load_entries: shapes
\* longest list a result file of ShapeDirs holds
MaxLoadItems == 1

ShapeRecords ==
    {Dict([name |-> <<"a">>, lat |-> IntVal(10), lng |-> IntVal(20)]),
     Dict([name |-> <<"b">>, vicinity |-> <<"f">>])}

\* what a mapping may hold under a wrapper key: a text, null, a mapping,
\* or a list of records, the empty one included
ShapeValues ==
    {<<"x">>, None} \cup {List(items) : items \in SeqsUpTo(ShapeRecords, MaxLoadItems)}

\* contents of a result file: a list, a mapping with any of the wrapper
\* keys, a scalar, and one json.load does not parse
ShapeContents ==
    {List(items) : items \in SeqsUpTo(ShapeRecords, MaxLoadItems)}
    \cup {Dict(fields @@ [name |-> <<"n">>]) :
             fields \in UNION {[keys -> ShapeValues] :
                                  keys \in SUBSET {WrapperKeys[k] : k \in 1..Len(WrapperKeys)}}}
    \cup {Scalar, Invalid}

\* directories of one result file
ShapeDirs == {<<[name |-> ResultNames[2], data |-> data]>> : data \in ShapeContents}

ShapeInput == [dirs |-> ShapeDirs]

ShapeStart == FindResultFiles(ShapeInput)

ShapeNext ==
    \/ ShapeStart
    \/ LoadEntriesRaises
    \/ SkipFile
    \/ ProcessFile
    \/ NoFrames
    \/ WriteOutputs

\* Runs of build_central_db.py over a directory of one result file of any shape.
SpecShapes == NamesInit /\ [][ShapeNext]_vars

\* the content of the file the loop took last
LastTaken == dir[taken].data

\* the value of the mapping under the k-th wrapper key is a list
ListUnder(data, k) == WrapperKeys[k] \in DOMAIN data[2] /\ IsList(data[2][WrapperKeys[k]])

\* C24: load_entries gives a list as it is; of a mapping the list under the
\* first of results, data, items, places that holds a list, be it empty and
\* a later one not, a value that is no list being passed over; a mapping
\* with no list under these keys as the one record; nothing for any other
\* content.
C24_ShapeResolution ==
    taken > 0 =>
        /\ IsList(LastTaken) => fileEntries = LastTaken[2]
        /\ IsDict(LastTaken) =>
              /\ \A k \in 1..Len(WrapperKeys) :
                    (ListUnder(LastTaken, k) /\ \A l \in 1..(k - 1) : ~ListUnder(LastTaken, l))
                    => fileEntries = LastTaken[2][WrapperKeys[k]][2]
              /\ (\A k \in 1..Len(WrapperKeys) : ~ListUnder(LastTaken, k)) => fileEntries = <<LastTaken>>
        /\ (~IsList(LastTaken) /\ ~IsDict(LastTaken)) => fileEntries = <<>>

\* a mapping with a text under results, the empty list under data and a
\* record under items was loaded as no entry
C24_Witness ==
    /\ taken > 0
    /\ IsDict(LastTaken)
    /\ DOMAIN LastTaken[2] = {"results", "data", "items", "name"}
    /\ LastTaken[2].results = <<"x">>
    /\ LastTaken[2].data = List(<<>>)
    /\ LastTaken[2].items # List(<<>>) /\ IsList(LastTaken[2].items)
    /\ fileEntries = <<>>

\* ------------------------------------------------ combined table: order
\* most result files in a directory of OrderDirs
MaxOrderFiles == 2

\* file names whose order depends on the case of a letter and on the
\* characters "." and "_"; sorted they are B_c, a, a_D, a_b_D
OrderNames ==
    {S_results_ \o <<"a", "_", "D">> \o S_json,
     S_results_ \o <<"a", "_", "b", "_", "D">> \o S_json,
     S_results_ \o <<"B", "_", "c">> \o S_json,
     S_results_ \o <<"a">> \o S_json}

OrderFirst == Dict([name |-> <<"a">>, lat |-> IntVal(10), lng |-> IntVal(20)])

OrderSecond == Dict([name |-> <<"b">>, lat |-> <<"1">>, lng |-> IntVal(2)])

OrderInvalid == Dict([name |-> <<"c">>, lat |-> <<"9", "1">>, lng |-> IntVal(1)])

OrderContents ==
    {List(<<>>), List(<<OrderFirst, OrderSecond>>), List(<<OrderSecond, OrderFirst>>),
     List(<<OrderFirst, OrderInvalid, OrderSecond>>), List(<<OrderInvalid>>)}

\* directories as glob.glob lists them: files of distinct names in any order
OrderDirs ==
    {files \in SeqsUpTo([name : OrderNames, data : OrderContents], MaxOrderFiles) :
        /\ files # <<>>
        /\ \A i, j \in 1..Len(files) : i # j => files[i].name # files[j].name}

OrderInput == [dirs |-> OrderDirs]

OrderStart == FindResultFiles(OrderInput)

OrderNext ==
    \/ OrderStart
    \/ SkipFile
    \/ ProcessFile
    \/ NoFrames
    \/ WriteOutputs

\* Runs of build_central_db.py over directories listed in any order.
SpecOrder == NamesInit /\ [][OrderNext]_vars

\* the record has a latitude and a longitude the filter keeps
KeptRecord(entry) ==
    /\ Within(ToNumeric(entry[2].lat), -90, 90)
    /\ Within(ToNumeric(entry[2].lng), -180, 180)

\* the names of the records, in their order
RecordNames(records) == [i \in 1..Len(records) |-> records[i][2].name]

\* the names in the rows of the combined table that come from the file
RowNamesOf(file) ==
    LET from == SelectSeq(combined.rows, LAMBDA row : row["source_file"] = BaseName(file.name))
    IN  [i \in 1..Len(from) |-> from[i]["name"]]

\* C25: the rows of the combined table come file by file in the sorted
\* order of the file paths; the rows of one file are its records with valid
\* coordinates in the order the file has them; each row carries the
\* location type, area and city of its file's name, and that name.
C25_CombinedOrder ==
    Written =>
        /\ \A i, j \in 1..Len(combined.rows) :
              i < j => ~StrLess(combined.rows[j]["source_file"], combined.rows[i]["source_file"])
        /\ \A k \in 1..Len(dir) :
              /\ RowNamesOf(dir[k]) = RecordNames(SelectSeq(LoadEntries(dir[k].data), KeptRecord))
              /\ \A i \in 1..Len(combined.rows) :
                    combined.rows[i]["source_file"] = BaseName(dir[k].name) =>
                        LET info == ParseFilenameInfo(dir[k].name)
                        IN  /\ combined.rows[i]["location_type"] = Lower(info.location_type)
                            /\ combined.rows[i]["area"] = Replace(info.area, "_", " ")
                            /\ combined.rows[i]["city"] = Lower(info.city)
        /\ Len(combined.rows) =
              Cardinality(UNION {{<<k, i>> : i \in {i \in 1..Len(LoadEntries(dir[k].data)) :
                                                        KeptRecord(LoadEntries(dir[k].data)[i])}} :
                                    k \in 1..Len(dir)})

\* results_B_c.json, with an invalid record between two valid ones, and
\* results_a_D.json, with the same two the other way round, were combined
C25_Witness ==
    /\ Written
    /\ Len(dir) = 2
    /\ dir[1].name = S_results_ \o <<"B", "_", "c">> \o S_json
    /\ dir[1].data = List(<<OrderFirst, OrderInvalid, OrderSecond>>)
    /\ dir[2].name = S_results_ \o <<"a", "_", "D">> \o S_json
    /\ dir[2].data = List(<<OrderSecond, OrderFirst>>)
    /\ [i \in 1..Len(combined.rows) |-> combined.rows[i]["name"]] = <<<<"a">>, <<"b">>, <<"b">>, <<"a">>>>
    /\ combined.rows[3]["city"] = <<"d">>

\* ------------------------------------------------------- the batch loop
\* most rows in a CSV of BatchInput
MaxBatchRows == 3

BatchInput ==
    [scripts |-> {"poi", "police"},
     rows |-> [s \in {"poi", "police"} |->
                 IF s = "poi" THEN {PoiFull, PoiOther, PoiBlank}
                 ELSE {PoliceFull, PoliceOther}],
     headers |-> [s \in {"poi", "police"} |-> IF s = "poi" THEN {PoiHeaders} ELSE {PoliceHeaders}],
     maxlen |-> MaxBatchRows,
     batch |-> {-1, 0, 1, 2, 1000},
     dry |-> BOOLEAN,
     rollback |-> BOOLEAN,
     conflict |-> {"ignore"},
     tables |-> {DefaultTable, <<"t", ";">>},
     defaults |-> [s \in {"poi", "police"} |->
                     IF s = "poi" THEN {PoiArgsDefault} ELSE {PoliceArgsDefault}],
     maxruns |-> 1]

BatchStart == ParseArgs(BatchInput)

BatchNext == BatchStart \/ MainSteps

\* One run of an uploader with any --batch-size.  The process runs on: in
\* the loop it submits the next batch, after the loop it commits or rolls
\* back, unless a failure takes it out before.
SpecBatches ==
    /\ UploaderInit
    /\ [][BatchNext]_vars
    /\ WF_vars(ExecuteBatch)
    /\ WF_vars(RollbackMode)
    /\ WF_vars(Commit)

\* --batch-size, with 0 and the negative sizes taken as 1
EffectiveSize == IF args.batch_size <= 0 THEN 1 ELSE args.batch_size

\* the rows of the k-th batch of a list cut into batches of EffectiveSize
NthBatch(k) ==
    SubSeq(mapped, (k - 1) * EffectiveSize + 1,
           IF k * EffectiveSize < Len(mapped) THEN k * EffectiveSize ELSE Len(mapped))

\* a step of the loop that submits a statement: it is one statement, the
\* k-th carries the k-th batch, which is not empty and full unless the last
SubmitsNthBatch ==
    (pc = "batches" /\ conn'.executes # conn.executes) =>
        /\ conn'.executes = conn.executes + 1
        /\ Batch = NthBatch(conn'.executes)
        /\ Batch # <<>>
        /\ conn'.executes * EffectiveSize < Len(mapped) => Len(Batch) = EffectiveSize

\* a step that leaves the loop with no batch refused: the batches
\* submitted are all the batches of the list
LeavesAfterLastBatch ==
    (pc = "batches" /\ pc' # "batches" /\ conn'.executes = conn.executes) =>
        /\ conn.executes * EffectiveSize >= Len(mapped)
        /\ (conn.executes - 1) * EffectiveSize < Len(mapped)

\* C26: whatever the mapped rows and --batch-size (0 and negative sizes
\* taken as 1), the batch loop of either uploader ends; each turn submits
\* one statement; the batches are the consecutive slices of the mapped rows
\* of the effective size, the last one maybe shorter, none empty, and
\* together they are every mapped row once.
C26_BatchLoop ==
    /\ [][SubmitsNthBatch /\ LeavesAfterLastBatch]_vars
    /\ (pc = "batches") ~> (pc # "batches")

\* --batch-size 0: three mapped rows were committed in three statements
C26_Witness ==
    /\ Committed
    /\ args.batch_size = 0
    /\ Len(mapped) = 3
    /\ conn.executes = 3

\* ---------------------------------------------------- the connection
\* what holds of the calls made on the connection in every state
OpenedOnceClosedOnce ==
    /\ conn.opens <= 1
    /\ pc \in {"connected", "batches"} => (conn.opens = 1 /\ conn.closes = 0)
    /\ (pc \in {"done", "raised"} /\ ~args.dry_run /\ error # "connect")
          => (conn.opens = 1 /\ conn.closes = 1)
    /\ conn.commits <= 1
    /\ conn.commits = 1 =>
          /\ cursor >= Len(mapped)
          /\ conn.executes * EffectiveSize >= Len(mapped)
          /\ error \in {"none", "commit"}

\* what holds of every step: statements and commit go to the open
\* connection, none after the close
UsesOpenConnection ==
    /\ (conn'.executes > conn.executes \/ conn'.commits > conn.commits)
          => (conn.opens = 1 /\ conn.closes = 0 /\ conn'.opens = 1)
    /\ (conn.closes > 0 /\ pc' # "idle") => conn' = conn

\* C27: a run that is no dry run opens the connection once; every
\* statement and the commit go to it; it is closed once on every way out
\* (commit, rollback mode, build_insert_sql failing, a batch failing, commit
\* failing); nothing is executed after the close; commit is called once at
\* most and only after every batch was executed.
C27_ConnectionOpenedAndClosedOnce ==
    []OpenedOnceClosedOnce /\ [][UsesOpenConnection]_vars

\* commit failed after two batches: the connection was closed, once
C27_Witness ==
    /\ pc = "raised"
    /\ error = "commit"
    /\ conn = [opens |-> 1, executes |-> 2, commits |-> 1, rollbacks |-> 1, closes |-> 1]

\* ------------------------------------------- update clause: the table read
\* C28: POI uploader, policy update: for every valid --table T the
\* statement inserts into T and the COALESCE fallbacks of its update clause
\* read the stored values of T itself, so that no statement is refused for
\* the table it names.
C28_UpdateReadsTargetTable ==
    (script = "poi" /\ sql.action = "update") =>
        /\ sql.table = args.table
        /\ sql.ref = RelName(args.table)
        /\ error # "statement"

\* ------------------------------------------ deduplicated rows: their names
\* the identity key of the i-th row of the CSV: the name and address
\* columns of the deduplicated table, as exact text
IdentityKey(i) == <<Get(args.csv_rows[i], "name"), Get(args.csv_rows[i], "address")>>

\* the CSV is a deduplicated table: no two rows have the same identity key
DedupedCsv ==
    \A i, j \in 1..Len(args.csv_rows) : i # j => IdentityKey(i) # IdentityKey(j)

\* C29: POI uploader: the rows mapped from a deduplicated table have
\* pairwise distinct names; no two rows that differ in identity key are
\* mapped to one name.
C29_MappedNamesDistinct ==
    (script = "poi" /\ pc \notin {"idle", "loaded"} /\ DedupedCsv) =>
        \A i, j \in 1..Len(mapped) : i # j => mapped[i].name # mapped[j].name

\* -------------------------------------------- coordinates: axis by axis
\* the numeric parse of the cell, unset when the cell does not read as a number
AxisValue(cell) == IF Numeric(cell) THEN FloatOf(cell) ELSE None

\* C30: both uploaders resolve the coordinates of a row in one way: lat is
\* the numeric parse of the lat cell or unset, lon the numeric parse of the
\* lon cell or unset, each whatever the other cell holds, and the location
\* is "[[lat,lon]]" exactly when both are set.
C30_CoordinatesAxisByAxis ==
    pc \in {"mapped", "done"} =>
        \A i \in NamedRows :
            /\ MappedOf(i).lat = AxisValue(LatCell(i))
            /\ MappedOf(i).lon = AxisValue(LonCell(i))
            /\ Bracketed(MappedOf(i).location)
                  <=> (AxisValue(LatCell(i)) # None /\ AxisValue(LonCell(i)) # None)

====
